---------------------------- MODULE Spec2Model ----------------------------
(***************************************************************************)
(* A model of the simulation core of imp019: the inning state machine of   *)
(* Game::sim (src/src/game.rs), the fixture generator Schedule::new        *)
(* (src/src/schedule.rs), the day loop League::sim (src/src/league.rs),    *)
(* the decision attribution Game::record_wls (src/src/game.rs), the stat    *)
(* compiler Stats::compile_stats (src/src/stat.rs), the base running of    *)
(* Scoreboard, the pitching changes of Game::sub_pitcher, the end of       *)
(* Game::sim, the weighted draws of Game::get_expected_pa and              *)
(* Player::determine_spray (src/src/player.rs), the starting rotation of   *)
(* Game::setup_pitcher, the pitching of one side through a game, the loop  *)
(* of Game::sim with its runners and its play-by-play log, the archive of  *)
(* a season's stats in Player::record_stat_history, the batting order of   *)
(* Game::setup_bo, and the relegation and the league records of            *)
(* end_of_season (src/src/league.rs).                                      *)
(*                                                                         *)
(* Each part has its own specification over the shared variables; a        *)
(* specification keeps the variables of the other parts at their idle      *)
(* values.                                                                 *)
(***************************************************************************)
EXTENDS Integers, Sequences, FiniteSets, TLC

VARIABLES
    \* ---- Game::sim (game.rs:398-592) ----
    gpc,            \* position in Game::sim: "idle" | "loop" | "done"
    inning,         \* Inning { number, half }                  game.rs:400-403
    outs,           \* real outs of the half-inning             game.rs:404
    virtual_outs,   \* real outs plus one per error             game.rs:405
    home,           \* Scoreboard of the home side              game.rs:144
    away,           \* Scoreboard of the away side              game.rs:145
    \* ---- Schedule::new (schedule.rs:341-386) ----
    spc,            \* position in Schedule::new: "idle" | "rounds" | "pick" | "done" | "panic"
    teams,          \* the argument `teams`                      schedule.rs:341
    raw_matchups,   \* the shuffled ordered pairs not yet used   schedule.rs:342
    matchups,       \* the pairs consumed so far, in order       schedule.rs:356
    teams_to_pick,  \* the working list of the current round     schedule.rs:358
    games,          \* the expanded fixture list                 schedule.rs:373
    \* ---- League (league.rs:20-73) ----
    league_teams,   \* League.teams                              league.rs:22
    league_games,   \* League.schedule.games                     league.rs:23
    cur_idx,        \* League.cur_idx                            league.rs:24
    team_results,   \* Team.results of every team of the league  team.rs:54
    sim_ret,        \* what the last call of League::sim returned, None before the first
    sim_calls,      \* the 0-based indices Game::sim was called on, in call order
    day_scores,     \* <<home.r, away.r>> of the games of the last call   game.rs:52
    \* ---- Game::record_wls (game.rs:329-387) ----
    wls_pc,         \* "idle" | "ready" | "done"
    pitcher_record, \* Scoreboard.pitcher_record of the side     game.rs:63
    oppo_r,         \* the argument `oppo_r`                     game.rs:329
    boxscore,       \* the log record_wls appends to             game.rs:329
    \* ---- Player stat stream (player.rs:706-739) ----
    stat_stream,    \* Player.stat_stream
    \* ---- Scoreboard::advance_onbase / advance_batter (game.rs:74-95) ----
    bases_pc,       \* "idle" | "ready" | "done"
    bases_sb,       \* the Scoreboard the call works on
    bases_old,      \* the Scoreboard as it was before the call
    bases_call,     \* the call made: None, or Some of <<function, argument>>
    \* ---- Game::sub_pitcher (game.rs:278-327) ----
    sub_pc,         \* "idle" | "ready" | "done" | "panic"
    sub_inning,     \* inning.number                            game.rs:278
    sub_bat_r,      \* r of the batting Scoreboard, a u8         game.rs:280
    sub_pit,        \* the pitching Scoreboard                   game.rs:284
    sub_old,        \* the pitching Scoreboard before the call
    sub_team,       \* players of the pitching team              game.rs:286
    sub_log,        \* the boxscore the call appends to          game.rs:278
    \* ---- the end of Game::sim (game.rs:576-589) ----
    end_pc,         \* "idle" | "ready" | "done" | "panic"
    end_inning,     \* the Inning the loop stopped at            game.rs:409
    end_home,       \* the home Scoreboard                       game.rs:144
    end_away,       \* the away Scoreboard                       game.rs:145
    end_log,        \* the boxscore's decisions                  game.rs:400
    end_results,    \* Team.results of the two teams             team.rs:79
    \* ---- the weighted draws (game.rs:228-236, player.rs:635-645) ----
    draw_pc,        \* "idle" | "ready" | "done"
    draw_fn,        \* the function called
    draw_weights,   \* None (no chart), or Some of the weight of every key
    draw_roll,      \* the value the generator yields for the draw
    draw_order,     \* per run, the order in which the HashMap yields its keys
    draw_result,    \* per run, None before the call, then Some of its outcome
    \* ---- Game::setup_pitcher (game.rs:175-183) ----
    rot_pc,         \* "idle" | "season"
    rotation,       \* Team.rotation                             team.rs:53
    rotation_start, \* Team.rotation before the team's first game
    rot_pitcher,    \* Scoreboard.pitcher of the team's last game game.rs:177
    rot_log,        \* the Gs events of the team's starters       game.rs:178
    \* ---- the pitching of one side through Game::sim (game.rs:398-589) ----
    staff_pc,       \* "idle" | "loop" | "done" | "panic"
    staff_side,     \* the side looked at: "home" | "away"
    staff_inning,   \* Inning { number, half }                   game.rs:400
    staff_outs,     \* real outs of the half-inning              game.rs:404
    staff_sb,       \* the Scoreboard of the side                game.rs:144
    staff_other_r,  \* r of the other side's Scoreboard          game.rs:52
    staff_team,     \* players of the side's team                team.rs:52
    staff_fielded,  \* real outs recorded while the side pitched
    staff_scored,   \* runs scored by both sides since the start explored
    staff_log,      \* the G events of the pitchers brought in   game.rs:325
    \* ---- the loop of Game::sim with its log (game.rs:409-573) ----
    play_pc,        \* "idle" | "loop" | "done"
    play_inning,    \* Inning { number, half }                   game.rs:400
    play_outs,      \* real outs of the half-inning              game.rs:404
    play_virtual_outs, \* real outs plus one per error           game.rs:405
    play_home,      \* Scoreboard of the home side               game.rs:144
    play_away,      \* Scoreboard of the away side               game.rs:145
    play_log,       \* the events the last loop iteration pushed game.rs:400
    play_last,      \* None, or Some of the last plate appearance: its draws and
                    \* the state it started from
    play_count,     \* per side, the plate appearances taken since the start
    play_start_ab,  \* per side, Scoreboard.ab at the start
    play_start_outs, \* per side, the outs its pitchers had recorded at the start
    play_reached,   \* for the batters since, who pitched and how they fared
    play_tally,     \* per side, the Br, the Per / Pr and the Po / Pso events pushed since
    \* ---- the seasons of a stat stream (player.rs:706-728) ----
    arch_pc,        \* "idle" | "season" | "archived"
    arch_stream,    \* Player.stat_stream                         player.rs:692
    arch_historical, \* Player.historical                         player.rs:693
    arch_compiled,  \* None, or Some of compile_stats of the stream last archived
    \* ---- the batting order of a side (game.rs:185-218) ----
    lineup_pc,      \* "idle" | "ready" | "set"
    lineup_team,    \* Team.players                               team.rs:23
    lineup_players, \* PlayerMap: pos, b_obp, age, fatigue        player.rs:377
    lineup_bo,      \* Scoreboard.bo                              game.rs:57
    lineup_boxscore, \* the boxscore of the game                  game.rs:400
    lineup_games,   \* the games the side was set up for
    \* ---- relegation and promotion (league.rs:134-151) ----
    rel_pc,         \* "idle" | "season" | "sorted"
    rel_leagues,    \* League.teams of every league, top league first  league.rs:22
    rel_count,      \* the `count` of end_of_season               league.rs:120
    rel_year,       \* the seasons ended
    \* ---- the league records (league.rs:95-118) ----
    rec_pc,         \* "idle" | "open"
    rec_records,    \* League.records                             league.rs:25
    rec_seen,       \* the player-seasons check_record was called with
    rec_calls       \* the calls of check_record

gameVars == <<gpc, inning, outs, virtual_outs, home, away>>
schedVars == <<spc, teams, raw_matchups, matchups, teams_to_pick, games>>
leagueVars == <<league_teams, league_games, cur_idx, team_results, sim_ret, sim_calls,
               day_scores>>
wlsVars == <<wls_pc, pitcher_record, oppo_r, boxscore>>
statVars == <<stat_stream>>

basesVars == <<bases_pc, bases_sb, bases_old, bases_call>>
subVars == <<sub_pc, sub_inning, sub_bat_r, sub_pit, sub_old, sub_team, sub_log>>
endVars == <<end_pc, end_inning, end_home, end_away, end_log, end_results>>
drawVars == <<draw_pc, draw_fn, draw_weights, draw_roll, draw_order, draw_result>>
rotVars == <<rot_pc, rotation, rotation_start, rot_pitcher, rot_log>>
staffVars == <<staff_pc, staff_side, staff_inning, staff_outs, staff_sb, staff_other_r,
               staff_team, staff_fielded, staff_scored, staff_log>>
playVars == <<play_pc, play_inning, play_outs, play_virtual_outs, play_home, play_away,
              play_log, play_last, play_count, play_start_ab, play_start_outs, play_reached,
              play_tally>>
midVars == <<rotVars, staffVars, playVars>>
archVars == <<arch_pc, arch_stream, arch_historical, arch_compiled>>
lineupVars == <<lineup_pc, lineup_team, lineup_players, lineup_bo, lineup_boxscore,
                lineup_games>>
relVars == <<rel_pc, rel_leagues, rel_count, rel_year>>
recVars == <<rec_pc, rec_records, rec_seen, rec_calls>>
archRest == <<lineupVars, relVars, recVars>>
lineupRest == <<archVars, relVars, recVars>>
relRest == <<archVars, lineupVars, recVars>>
recRest == <<archVars, lineupVars, relVars>>
tailVars == <<archVars, lineupVars, relVars, recVars>>
lateVars == <<rotVars, staffVars, playVars, tailVars>>
moreVars == <<basesVars, subVars, endVars, drawVars, lateVars>>
earlyVars == <<gameVars, schedVars, leagueVars, wlsVars, statVars,
               basesVars, subVars, endVars, drawVars>>

vars == <<gameVars, schedVars, leagueVars, wlsVars, statVars, moreVars>>

-----------------------------------------------------------------------------
(* Bounds of the model *)

\* A plate appearance that would take a side beyond MaxRuns runs is not explored.
MaxRuns == 1
\* The End tick that would open an inning beyond MaxInning is not explored.
MaxInning == 10
\* The longest list of pitcher stints record_wls is applied to.
MaxStints == 3
\* The longest stat stream compiled.
MaxStream == 3

-----------------------------------------------------------------------------
(* Option<T> *)

None == <<>>
Some(x) == <<x>>
Unwrap(o) == o[1]

-----------------------------------------------------------------------------
(* Enumerations *)

\* enum InningHalf, game.rs:116-122
InningHalf == {"Top", "Middle", "Bottom", "End"}

\* enum Expect, player.rs:380-391
Expect == {"Single", "Double", "Triple", "HomeRun", "Walk", "HitByPitch",
           "Strikeout", "Out", "Error"}

\* The categories get_expected_pa draws from: the keys of LEAGUE_AVG and of the
\* generated outcome maps; Error only arises from check_for_error.
ExpectDrawn == Expect \ {"Error"}

\* enum Position, player.rs:16-32 (the positions a spray chart can name)
OutfieldPositions == {"LeftField", "CenterField", "RightField"}
SprayPositions == {"StartingPitcher", "Catcher", "FirstBase", "SecondBase",
                   "ThirdBase", "ShortStop"} \cup OutfieldPositions

\* Player::determine_spray, player.rs:635-645, over the charts built by
\* generate_bat_spray / generate_pit_spray: Single and Out charts name nine
\* positions, Double/Triple/HomeRun charts the three outfield positions, and a
\* category without chart yields CenterField.
determine_spray(expect) ==
    CASE expect \in {"Single", "Out"} -> SprayPositions
      [] expect \in {"Double", "Triple", "HomeRun"} -> OutfieldPositions
      [] OTHER -> {"CenterField"}

\* The targets a plate appearance is explored with: one position of each kind
\* the arms of Game::sim tell apart (right field, the rest of the outfield,
\* pitcher or catcher, the infield).
TargetsExplored == {"RightField", "CenterField", "Catcher", "SecondBase"}

\* Game::check_for_error, game.rs:258-265; fielder_errs is the outcome of
\* fielder.check_for_e(rng).
check_for_error(result, fielder_errs) ==
    IF result = "Out" /\ fielder_errs THEN "Error" ELSE result

-----------------------------------------------------------------------------
(* Scoreboard, game.rs:49-114.  The fields kept are the ones the inning      *)
(* state machine reads: r, onbase and runs_in.  The fields of a RunnerInfo   *)
(* (runner, pitcher, earned) are only ever copied into the play-by-play log, *)
(* so a runner is kept as a token.                                           *)

\* struct RunnerInfo, game.rs:28-33
RunnerInfo == "runner"

\* Scoreboard::new, game.rs:67-72
NewScoreboard == [r |-> 0,
                  onbase |-> [b \in 0..3 |-> None],
                  runs_in |-> <<>>]

\* advance_onbase without the push of the runners ahead
advance_onbase_overwrite(sb, start) ==
    IF start > 3 \/ sb.onbase[start] = None
    THEN sb
    ELSE IF start = 3
         THEN [sb EXCEPT !.runs_in = Append(@, Unwrap(sb.onbase[3])),
                         !.onbase[3] = None]
         ELSE [sb EXCEPT !.onbase[start + 1] = sb.onbase[start],
                         !.onbase[start] = None]

\* Scoreboard::advance_onbase, game.rs:74-87
RECURSIVE advance_onbase(_, _)
advance_onbase(sb, start) ==
    IF start > 3 \/ sb.onbase[start] = None
    THEN sb
    ELSE IF start = 3
         THEN [sb EXCEPT !.runs_in = Append(@, Unwrap(sb.onbase[3])),
                         !.onbase[3] = None]
         ELSE LET pushed == advance_onbase(sb, start + 1)
                  moved  == [pushed EXCEPT !.onbase[start + 1] = pushed.onbase[start]]
              IN  [moved EXCEPT !.onbase[start] = None]

\* the loop `for idx in 0..amt { self.advance_onbase(idx) }`, game.rs:92-94
RECURSIVE advance_from(_, _, _)
advance_from(sb, idx, amt) ==
    IF idx >= amt THEN sb
    ELSE advance_from(advance_onbase(sb, idx), idx + 1, amt)

\* advance_batter with one advance too many
advance_batter_extra(sb, runner, amt) ==
    advance_from([sb EXCEPT !.onbase[0] = Some(runner)], 0, amt + 1)

\* Scoreboard::advance_batter, game.rs:90-95
advance_batter(sb, runner, amt) ==
    advance_from([sb EXCEPT !.onbase[0] = Some(runner)], 0, amt)

\* Scoreboard::record_runs, game.rs:101-104 (r is a u8)
record_runs(sb) ==
    [sb EXCEPT !.r = (@ + Len(sb.runs_in)) % 256, !.runs_in = <<>>]

\* clear_onbase that leaves the runners where they are
clear_onbase_never(sb) == sb

\* `onbase.fill(None)`, game.rs:411 and 418
clear_onbase(sb) == [sb EXCEPT !.onbase = [b \in 0..3 |-> None]]

-----------------------------------------------------------------------------
(* Game, game.rs:143-593 *)

\* is_complete that waits for the end of the inning
is_complete_full_inning(inn, h, a) ==
    inn.number >= 9 /\ inn.half = "End" /\ h.r # a.r

\* is_complete with the away side's comparison taken as >=
is_complete_tie(inn, h, a) ==
    inn.number >= 9 /\ (   (inn.half # "Top" /\ h.r > a.r)
                        \/ (inn.half = "End" /\ a.r >= h.r))

\* Game::is_complete, game.rs:159-161
is_complete(inn, h, a) ==
    inn.number >= 9 /\ (   (inn.half # "Top" /\ h.r > a.r)
                        \/ (inn.half = "End" /\ a.r > h.r))

\* Game::is_away_ab, game.rs:163-165
is_away_ab(inn) == inn.half = "Top" \/ inn.half = "Middle"

\* Game::batting / Game::pitching, game.rs:250-256
batting(inn, h, a) == IF is_away_ab(inn) THEN a ELSE h
pitching(inn, h, a) == IF is_away_ab(inn) THEN h ELSE a

\* out_arm that takes the runner off second base
out_arm_second(sb, cur_outs, target) ==
    IF cur_outs < 2
    THEN CASE target \in OutfieldPositions ->
                [sb |-> advance_onbase(sb, 3), add_outs |-> 1]
           [] target \in {"Catcher", "StartingPitcher"} ->
                [sb |-> IF sb.onbase[3] = None THEN advance_onbase(sb, 1) ELSE sb,
                 add_outs |-> 1]
           [] OTHER ->
                IF sb.onbase[2] # None
                THEN [sb |-> [sb EXCEPT !.onbase[2] = None], add_outs |-> 2]
                ELSE [sb |-> sb, add_outs |-> 1]
    ELSE [sb |-> sb, add_outs |-> 1]

\* out_arm without the `outs < 2` test
out_arm_unguarded(sb, cur_outs, target) ==
    CASE target \in OutfieldPositions ->
            [sb |-> advance_onbase(sb, 3), add_outs |-> 1]
      [] target \in {"Catcher", "StartingPitcher"} ->
            [sb |-> IF sb.onbase[3] = None THEN advance_onbase(sb, 1) ELSE sb,
             add_outs |-> 1]
      [] OTHER ->
            IF sb.onbase[1] # None
            THEN [sb |-> [sb EXCEPT !.onbase[1] = None], add_outs |-> 2]
            ELSE [sb |-> sb, add_outs |-> 1]

\* The `Expect::Out` arm of Game::sim, game.rs:502-530: the batting scoreboard
\* and the outs charged.
out_arm(sb, cur_outs, target) ==
    IF cur_outs < 2
    THEN CASE target \in OutfieldPositions ->
                [sb |-> advance_onbase(sb, 3), add_outs |-> 1]
           [] target \in {"Catcher", "StartingPitcher"} ->
                [sb |-> IF sb.onbase[3] = None THEN advance_onbase(sb, 1) ELSE sb,
                 add_outs |-> 1]
           [] OTHER ->
                IF sb.onbase[1] # None
                THEN [sb |-> [sb EXCEPT !.onbase[1] = None], add_outs |-> 2]
                ELSE [sb |-> sb, add_outs |-> 1]
    ELSE [sb |-> sb, add_outs |-> 1]

\* The `match result` of Game::sim, game.rs:451-531: the batting scoreboard
\* after the play and result_outs.
resolve(sb, result, target, cur_outs) ==
    CASE result = "Single" ->
            LET pre == IF target = "RightField"
                       THEN advance_onbase(advance_onbase(sb, 3), 2)
                       ELSE sb
            IN  [sb |-> advance_batter(pre, RunnerInfo, 1), add_outs |-> 0]
      [] result = "Double" -> [sb |-> advance_batter(sb, RunnerInfo, 2), add_outs |-> 0]
      [] result = "Triple" -> [sb |-> advance_batter(sb, RunnerInfo, 3), add_outs |-> 0]
      [] result = "HomeRun" -> [sb |-> advance_batter(sb, RunnerInfo, 4), add_outs |-> 0]
      [] result = "Walk" -> [sb |-> advance_batter(sb, RunnerInfo, 1), add_outs |-> 0]
      [] result = "HitByPitch" -> [sb |-> advance_batter(sb, RunnerInfo, 1), add_outs |-> 0]
      [] result = "Error" -> [sb |-> advance_batter(sb, RunnerInfo, 1), add_outs |-> 0]
      [] result = "Strikeout" -> [sb |-> sb, add_outs |-> 1]
      [] result = "Out" -> out_arm(sb, cur_outs, target)

\* The half after a plate appearance, game.rs:567-573
next_half(h, new_outs) ==
    IF new_outs >= 3
    THEN IF h = "Top" THEN "Middle" ELSE IF h = "Bottom" THEN "End" ELSE h
    ELSE h

\* The game part while another part runs
GameIdle ==
    /\ gpc = "idle"
    /\ inning = [number |-> 1, half |-> "Top"]
    /\ outs = 0
    /\ virtual_outs = 0
    /\ home = NewScoreboard
    /\ away = NewScoreboard

\* State at the head of Game::sim's loop, game.rs:399-407
GameStart ==
    /\ gpc = "loop"
    /\ inning = [number |-> 1, half |-> "Top"]
    /\ outs = 0
    /\ virtual_outs = 0
    /\ home = NewScoreboard
    /\ away = NewScoreboard

\* Loop iteration with half = Middle, game.rs:410-416
MiddleTick ==
    /\ gpc = "loop"
    /\ ~is_complete(inning, home, away)
    /\ inning.half = "Middle"
    /\ home' = clear_onbase(home)
    /\ outs' = 0
    /\ virtual_outs' = 0
    /\ inning' = [inning EXCEPT !.half = "Bottom"]
    /\ UNCHANGED <<gpc, away, schedVars, leagueVars, wlsVars, statVars, moreVars>>

\* Loop iteration with half = End, game.rs:417-424
EndTick ==
    /\ gpc = "loop"
    /\ ~is_complete(inning, home, away)
    /\ inning.half = "End"
    /\ inning.number < MaxInning
    /\ away' = clear_onbase(away)
    /\ outs' = 0
    /\ virtual_outs' = 0
    /\ inning' = [number |-> inning.number + 1, half |-> "Top"]
    /\ UNCHANGED <<gpc, home, schedVars, leagueVars, wlsVars, statVars, moreVars>>

\* Loop iteration that resolves a plate appearance, game.rs:425-573
PlateAppearance ==
    /\ gpc = "loop"
    /\ ~is_complete(inning, home, away)
    /\ inning.half \in {"Top", "Bottom"}
    /\ \E expected \in ExpectDrawn :
       \E target \in determine_spray(expected) \cap TargetsExplored :
       \E fielder_errs \in (IF expected = "Out" THEN BOOLEAN ELSE {FALSE}) :
          LET result == check_for_error(expected, fielder_errs)
              play   == resolve(batting(inning, home, away), result, target, outs)
              bat    == record_runs(play.sb)
              result_outs == play.add_outs
          IN  /\ bat.r <= MaxRuns
              /\ IF is_away_ab(inning)
                 THEN away' = bat /\ UNCHANGED home
                 ELSE home' = bat /\ UNCHANGED away
              /\ outs' = outs + result_outs
              /\ virtual_outs' = virtual_outs + result_outs
                                 + (IF result = "Error" THEN 1 ELSE 0)
              /\ inning' = [inning EXCEPT !.half = next_half(@, outs + result_outs)]
    /\ UNCHANGED <<gpc, schedVars, leagueVars, wlsVars, statVars, moreVars>>

\* Exit of the loop and the rest of Game::sim, game.rs:409 and 576-591
FinishGame ==
    /\ gpc = "loop"
    /\ is_complete(inning, home, away)
    /\ gpc' = "done"
    /\ UNCHANGED <<inning, outs, virtual_outs, home, away, schedVars, leagueVars, wlsVars, statVars, moreVars>>

GameNext == MiddleTick \/ EndTick \/ PlateAppearance \/ FinishGame

-----------------------------------------------------------------------------
(* Schedule::new, schedule.rs:341-386 *)

\* The team lists Schedule::new is explored on.
TeamLists == {<<1>>, <<1, 2>>, <<1, 2, 3>>, <<1, 2, 3, 4>>}

\* Game::new(home, away), schedule.rs:119-131, as the schedule reads it
NewGame(h, a) == [home |-> h, away |-> a]

\* The nested loop over `teams`, schedule.rs:346-352: the pairs with home
\* teams[i], in the order of `teams`.
RECURSIVE pairs_of_home(_, _, _)
pairs_of_home(ts, i, j) ==
    IF j > Len(ts) THEN <<>>
    ELSE (IF ts[i] # ts[j] THEN <<NewGame(ts[i], ts[j])>> ELSE <<>>)
         \o pairs_of_home(ts, i, j + 1)

RECURSIVE all_pairs(_, _)
all_pairs(ts, i) ==
    IF i > Len(ts) THEN <<>>
    ELSE pairs_of_home(ts, i, 1) \o all_pairs(ts, i + 1)

\* Every order of a list
Perms(s) == {[i \in 1..Len(s) |-> s[p[i]]] : p \in Permutations(1..Len(s))}

\* Every rotation of a list
Rotations(s) ==
    {[i \in 1..Len(s) |-> s[((i + k - 1) % Len(s)) + 1]] : k \in 0..(Len(s) - 1)}

\* Outcomes of `raw_matchups.shuffle(rng)`, schedule.rs:354: every order for up
\* to three teams, the unshuffled order for more.
raw_shuffles(s) == IF Len(s) <= 6 THEN Perms(s) ELSE {s}

\* a shuffle that leaves the list as it is
pick_unshuffled(s) == {s}

\* Outcomes of `teams_to_pick.shuffle(rng)`, schedule.rs:359: every order for
\* up to three teams, every rotation for more.
pick_shuffles(s) == IF Len(s) <= 3 THEN Perms(s) ELSE Rotations(s)

\* `x in list`
Contains(list, x) == \E i \in 1..Len(list) : list[i] = x

\* `raw_matchups.iter().position(..)`, schedule.rs:363: the 1-based index of the
\* first pair with home `team` whose away team is still to pick, 0 if none.
position(raw, team, to_pick) ==
    LET hits == {i \in 1..Len(raw) :
                    raw[i].home = team /\ Contains(to_pick, raw[i].away)}
    IN  IF hits = {} THEN 0 ELSE CHOOSE i \in hits : \A j \in hits : i <= j

\* `Vec::remove(idx)`
RemoveAt(list, idx) ==
    [i \in 1..(Len(list) - 1) |-> IF i < idx THEN list[i] ELSE list[i + 1]]

\* `Vec::retain(|&o| o != x)`
RECURSIVE RetainNot(_, _)
RetainNot(list, x) ==
    IF list = <<>> THEN <<>>
    ELSE (IF Head(list) # x THEN <<Head(list)>> ELSE <<>>) \o RetainNot(Tail(list), x)

\* `team_count / 2`, the step and the block width of the expansion
half_count(ts) == Len(ts) \div 2

\* The expansion indexes matchups[idx + offset], schedule.rs:377; TRUE when
\* every index it uses exists.
expand_in_bounds(ms, width) ==
    \A idx \in {i \in 0..(Len(ms) - 1) : i % width = 0} :
        \A offset \in 0..(width - 1) : idx + offset < Len(ms)

\* One pass `for offset in 0..(team_count / 2)`, schedule.rs:376-379
expand_block(ms, idx, width) ==
    [o \in 1..width |-> NewGame(ms[idx + o].home, ms[idx + o].away)]

\* expand_from with a round replayed three times
RECURSIVE expand_thrice(_, _, _)
expand_thrice(ms, idx, width) ==
    IF idx >= Len(ms) THEN <<>>
    ELSE LET block == expand_block(ms, idx, width)
         IN  block \o block \o block \o expand_thrice(ms, idx + width, width)

\* The loops of schedule.rs:374-381 from the 0-based index idx on
RECURSIVE expand_from(_, _, _)
expand_from(ms, idx, width) ==
    IF idx >= Len(ms) THEN <<>>
    ELSE LET block == expand_block(ms, idx, width)
         IN  block \o block \o block \o block \o expand_from(ms, idx + width, width)

\* The schedule part while another part runs
SchedIdle ==
    /\ spc = "idle"
    /\ teams = <<>>
    /\ raw_matchups = <<>>
    /\ matchups = <<>>
    /\ teams_to_pick = <<>>
    /\ games = <<>>

\* State at the head of the round loop, schedule.rs:342-356
SchedStart ==
    /\ spc = "rounds"
    /\ teams \in TeamLists
    /\ raw_matchups \in raw_shuffles(all_pairs(teams, 1))
    /\ matchups = <<>>
    /\ teams_to_pick = <<>>
    /\ games = <<>>

\* A round begins: the working list is rebuilt and shuffled, schedule.rs:357-359
StartRound ==
    /\ spc = "rounds"
    /\ raw_matchups # <<>>
    /\ teams_to_pick' \in pick_shuffles(teams)
    /\ spc' = "pick"
    /\ UNCHANGED <<teams, raw_matchups, matchups, games, gameVars, leagueVars, wlsVars, statVars, moreVars>>

\* The position the inner loop is left at after a pop, schedule.rs:361
after_pop(to_pick) == IF to_pick = <<>> THEN "rounds" ELSE "pick"

\* A team is popped and a fixture found for it, schedule.rs:362-368
PopAndMatch ==
    /\ spc = "pick"
    /\ teams_to_pick # <<>>
    /\ LET team == teams_to_pick[Len(teams_to_pick)]
           rest == SubSeq(teams_to_pick, 1, Len(teams_to_pick) - 1)
           idx  == position(raw_matchups, team, rest)
       IN  /\ idx # 0
           /\ LET game == raw_matchups[idx]
                  other_team == IF game.home = team THEN game.away ELSE game.home
              IN  /\ raw_matchups' = RemoveAt(raw_matchups, idx)
                  /\ matchups' = Append(matchups, game)
                  /\ teams_to_pick' = RetainNot(rest, other_team)
                  /\ spc' = after_pop(RetainNot(rest, other_team))
    /\ UNCHANGED <<teams, games, gameVars, leagueVars, wlsVars, statVars, moreVars>>

\* A team is popped and no fixture is found for it, schedule.rs:362-363
PopNoMatch ==
    /\ spc = "pick"
    /\ teams_to_pick # <<>>
    /\ LET team == teams_to_pick[Len(teams_to_pick)]
           rest == SubSeq(teams_to_pick, 1, Len(teams_to_pick) - 1)
       IN  /\ position(raw_matchups, team, rest) = 0
           /\ teams_to_pick' = rest
           /\ spc' = after_pop(rest)
    /\ UNCHANGED <<teams, raw_matchups, matchups, games, gameVars, leagueVars, wlsVars, statVars, moreVars>>

\* The expansion and the return, schedule.rs:373-385.  `step_by(0)` panics,
\* and so does an index beyond the end of matchups.
Expand ==
    /\ spc = "rounds"
    /\ raw_matchups = <<>>
    /\ IF half_count(teams) = 0 \/ ~expand_in_bounds(matchups, half_count(teams))
       THEN spc' = "panic" /\ UNCHANGED games
       ELSE spc' = "done" /\ games' = expand_from(matchups, 0, half_count(teams))
    /\ UNCHANGED <<teams, raw_matchups, matchups, teams_to_pick, gameVars, leagueVars, wlsVars, statVars, moreVars>>

SchedNext == StartRound \/ PopAndMatch \/ PopNoMatch \/ Expand

-----------------------------------------------------------------------------
(* League::sim, league.rs:57-72 *)

\* Struct Results, team.rs:12-16
NewResults == [win |-> 0, lose |-> 0]

\* the tally with the two counters exchanged
results_reversed(res, us, them) ==
    IF us > them THEN [res EXCEPT !.lose = @ + 1] ELSE [res EXCEPT !.win = @ + 1]

\* Team::results, team.rs:79-85
results(res, us, them) ==
    IF us > them THEN [res EXCEPT !.win = @ + 1] ELSE [res EXCEPT !.lose = @ + 1]

\* Final scores <<home.r, away.r>> of a game: Game::sim ends with two different
\* run totals, and Team::results only reads which one is larger.
FinalScores == {<<1, 0>>, <<0, 1>>}

\* What a call of Game::sim leaves behind for the league, game.rs:588-589: the
\* tallies of the two teams of the game; `played` counts the calls on the game.
sim_game(gs, res, calls, idx, score) ==
    LET g == gs[idx + 1]
        res_home == [res EXCEPT ![g.home] = results(@, score[1], score[2])]
        res_both == [res_home EXCEPT ![g.away] = results(@, score[2], score[1])]
    IN  [gs |-> [gs EXCEPT ![idx + 1].played = @ + 1],
         res |-> res_both,
         calls |-> Append(calls, idx)]

\* the loop taken through `last` inclusive
RECURSIVE sim_range_through(_, _, _, _, _, _)
sim_range_through(gs, res, calls, idx, last, scores) ==
    IF idx > last THEN [gs |-> gs, res |-> res, calls |-> calls]
    ELSE IF idx < Len(gs)
         THEN LET score == IF scores = <<>> THEN <<1, 0>> ELSE Head(scores)
                  rest == IF scores = <<>> THEN <<>> ELSE Tail(scores)
                  one == sim_game(gs, res, calls, idx, score)
              IN  sim_range_through(one.gs, one.res, one.calls, idx + 1, last, rest)
         ELSE [gs |-> gs, res |-> res, calls |-> calls]

\* The loop `for idx in self.cur_idx..(self.cur_idx + (teams / 2))` with
\* `games.get_mut(idx)`, league.rs:60-64; scores[k] is the outcome of the k-th
\* game of the range.
RECURSIVE sim_range(_, _, _, _, _, _)
sim_range(gs, res, calls, idx, last, scores) ==
    IF idx >= last THEN [gs |-> gs, res |-> res, calls |-> calls]
    ELSE IF idx < Len(gs)
         THEN LET one == sim_game(gs, res, calls, idx, Head(scores))
              IN  sim_range(one.gs, one.res, one.calls, idx + 1, last, Tail(scores))
         ELSE sim_range(gs, res, calls, idx + 1, last, Tail(scores))

\* The scores the games of the range end with: scores[k] for the k-th index
\* of the range when the schedule has a game there, league.rs:60-64
played_scores(gs, idx, scores) ==
    SubSeq(scores, 1, Cardinality({k \in DOMAIN scores : idx + k - 1 < Len(gs)}))

\* a day taken as one game per team
day_width_per_team(n) == n

\* `teams / 2`, the games of a day, league.rs:59-60 and 65
day_width(n) == n \div 2

\* Insertion of x behind every element whose key is not larger
RECURSIVE insert_by_key(_, _, _)
insert_by_key(sorted, x, key) ==
    IF sorted = <<>> THEN <<x>>
    ELSE IF key[Head(sorted)] <= key[x]
         THEN <<Head(sorted)>> \o insert_by_key(Tail(sorted), x, key)
         ELSE <<x>> \o sorted

\* `sort_by_key`, a stable sort, league.rs:69
RECURSIVE sort_by_key(_, _)
sort_by_key(list, key) ==
    IF list = <<>> THEN <<>>
    ELSE insert_by_key(sort_by_key(SubSeq(list, 1, Len(list) - 1), key),
                       list[Len(list)], key)

\* Team::get_losses of every team, team.rs:91-93
losses(res) == [t \in DOMAIN res |-> res[t].lose]

\* The consumed pairs of a season of 2, 3 and 4 teams; each is an outcome of
\* the round construction of Schedule::new.
season_matchups(n) ==
    CASE n = 2 -> <<NewGame(1, 2), NewGame(2, 1)>>
      [] n = 3 -> all_pairs(<<1, 2, 3>>, 1)
      [] n = 4 -> <<NewGame(1, 2), NewGame(4, 3), NewGame(1, 3), NewGame(4, 2),
                    NewGame(4, 1), NewGame(3, 2), NewGame(3, 1), NewGame(2, 4),
                    NewGame(3, 4), NewGame(2, 1), NewGame(2, 3), NewGame(1, 4)>>

\* A scheduled game before it is simulated
unplayed(g) == [home |-> g.home, away |-> g.away, played |-> 0]

\* The league part while another part runs
LeagueIdle ==
    /\ league_teams = <<>>
    /\ league_games = <<>>
    /\ cur_idx = 0
    /\ team_results = <<>>
    /\ sim_ret = None
    /\ sim_calls = <<>>
    /\ day_scores = <<>>

\* League::new, league.rs:30-46, for a league of 2, 3 or 4 teams
LeagueStart ==
    /\ league_teams \in {<<1, 2>>, <<1, 2, 3>>, <<1, 2, 3, 4>>}
    /\ league_games =
          LET n == Len(league_teams)
              fixtures == expand_from(season_matchups(n), 0, n \div 2)
          IN  [i \in 1..Len(fixtures) |-> unplayed(fixtures[i])]
    /\ cur_idx = 0
    /\ team_results = [t \in 1..Len(league_teams) |-> NewResults]
    /\ sim_ret = None
    /\ sim_calls = <<>>
    /\ day_scores = <<>>

\* League::sim with games left, league.rs:58-67
SimDay ==
    /\ cur_idx < Len(league_games)
    /\ LET width == day_width(Len(league_teams))
       IN  \E scores \in [1..width -> FinalScores] :
              LET day == sim_range(league_games, team_results, sim_calls,
                                   cur_idx, cur_idx + width, scores)
              IN  /\ league_games' = day.gs
                  /\ team_results' = day.res
                  /\ sim_calls' = day.calls
                  /\ day_scores' = played_scores(league_games, cur_idx, scores)
                  /\ cur_idx' = cur_idx + width
    /\ sim_ret' = Some(TRUE)
    /\ UNCHANGED <<league_teams, gameVars, schedVars, wlsVars, statVars, moreVars>>

\* League::sim with no game left, league.rs:69-71
SimSeasonOver ==
    /\ ~(cur_idx < Len(league_games))
    /\ league_teams' = sort_by_key(league_teams, losses(team_results))
    /\ sim_ret' = Some(FALSE)
    /\ day_scores' = <<>>
    /\ UNCHANGED <<league_games, cur_idx, team_results, sim_calls, gameVars, schedVars, wlsVars, statVars, moreVars>>

LeagueNext == SimDay \/ SimSeasonOver

-----------------------------------------------------------------------------
(* Game::record_wls, game.rs:329-387 *)

\* struct PitcherRecord, game.rs:41-47
PitcherRecord(p, o, din, dout) ==
    [pitcher |-> p, outs |-> o, run_diff_in |-> din, run_diff_out |-> dout]

\* struct GameLogEvent, game.rs:134-138, as pushed by Game::record_stat,
\* game.rs:238-244
record_stat(log, player, event, target) ==
    Append(log, [player |-> player, event |-> event, target |-> target])

\* win_walk that does not walk back from the final stint
win_walk_last_only(pr, idx, winner) ==
    IF pr[idx].run_diff_out > 0 THEN Some(pr[idx].pitcher) ELSE winner

\* The first loop of record_wls, game.rs:331-344; idx is 1-based.
RECURSIVE win_walk(_, _, _)
win_walk(pr, idx, winner) ==
    IF pr[idx].run_diff_out > 0
    THEN IF idx > 1
         THEN win_walk(pr, idx - 1, Some(pr[idx].pitcher))
         ELSE Some(pr[idx].pitcher)
    ELSE winner

\* The second loop of record_wls, game.rs:345-358; idx is 1-based.
RECURSIVE loss_walk(_, _, _)
loss_walk(pr, idx, loser) ==
    IF pr[idx].run_diff_out < 0
    THEN IF idx > 1
         THEN loss_walk(pr, idx - 1, Some(pr[idx].pitcher))
         ELSE Some(pr[idx].pitcher)
    ELSE loser

\* save_due without the `outs >= 9` alternative
save_due_lead_only(last_pr, w) ==
    last_pr.run_diff_in <= 3 /\ last_pr.pitcher # w

\* The test of game.rs:369
save_due(last_pr, w) ==
    (last_pr.run_diff_in <= 3 \/ last_pr.outs >= 9) /\ last_pr.pitcher # w

\* The hold loop, game.rs:375-378; hold_idx is 1-based, so the loop runs
\* while it is above 1.
RECURSIVE hold_walk(_, _, _, _)
hold_walk(log, pr, hold_idx, w) ==
    IF hold_idx > 1 /\ pr[hold_idx].pitcher # w /\ pr[hold_idx].run_diff_in <= 3
    THEN hold_walk(record_stat(log, pr[hold_idx].pitcher, "Phld", None),
                   pr, hold_idx - 1, w)
    ELSE log

\* Game::record_wls, game.rs:329-387: the log after the call
record_wls(log, pr, other_r) ==
    LET last_pitcher == Len(pr)
        winner == win_walk(pr, last_pitcher, None)
        loser  == loss_walk(pr, last_pitcher, None)
        after_win ==
            IF winner # None
            THEN LET w  == Unwrap(winner)
                     l1 == record_stat(log, w, "Pw", None)
                     l2 == IF last_pitcher = 1
                           THEN LET cg == record_stat(l1, w, "Pcg", None)
                                IN  IF other_r = 0
                                    THEN record_stat(cg, w, "Psho", None)
                                    ELSE cg
                           ELSE l1
                     last_pr == pr[last_pitcher]
                     l3 == IF save_due(last_pr, w)
                           THEN record_stat(l2, last_pr.pitcher, "Psv", None)
                           ELSE l2
                 IN  IF last_pitcher > 1
                     THEN hold_walk(l3, pr, last_pitcher - 1, w)
                     ELSE l3
            ELSE log
    IN  IF loser # None
        THEN LET l  == Unwrap(loser)
                 l4 == record_stat(after_win, l, "Pl", None)
             IN  IF last_pitcher = 1 THEN record_stat(l4, l, "Pcg", None) ELSE l4
        ELSE after_win

\* The stints record_wls is explored on: the k-th stint is pitched by pitcher
\* k (sub_pitcher never brings a pitcher back); the starter enters at 0
\* (game.rs:62) and every reliever enters with the difference the pitcher
\* before left with (game.rs:319 and 324).
StintOuts == {3, 9}
StintDiffOut == {-1, 0, 1, 3, 4}

RECURSIVE StintChains(_)
StintChains(n) ==
    IF n = 0
    THEN {<<>>}
    ELSE {Append(pr, PitcherRecord(n, o,
                                   IF n = 1 THEN 0 ELSE pr[n - 1].run_diff_out,
                                   dout)) :
             pr \in StintChains(n - 1), o \in StintOuts, dout \in StintDiffOut}

StintLists == UNION {StintChains(n) : n \in 1..MaxStints}

\* The decision part while another part runs
WlsIdle ==
    /\ wls_pc = "idle"
    /\ pitcher_record = <<>>
    /\ oppo_r = 0
    /\ boxscore = <<>>

\* The state record_wls is called in, game.rs:579-580 and 585-586
WlsStart ==
    /\ wls_pc = "ready"
    /\ pitcher_record \in StintLists
    /\ oppo_r \in 0..1
    /\ boxscore = <<>>

\* The call of record_wls, game.rs:580 and 586
RecordWls ==
    /\ wls_pc = "ready"
    /\ boxscore' = record_wls(boxscore, pitcher_record, oppo_r)
    /\ wls_pc' = "done"
    /\ UNCHANGED <<pitcher_record, oppo_r, gameVars, schedVars, leagueVars, statVars, moreVars>>

WlsNext == RecordWls

-----------------------------------------------------------------------------
(* Stats::compile_stats, stat.rs:326-394 *)

\* The recorded stats the stream is built from
StatsRecorded == {"B1b", "B2b", "B3b", "Bhr", "Bbb", "Bibb", "Bhbp", "Bso", "Bo",
                  "Bgidp", "Br", "Brbi", "Pso", "Gs"}

\* The counters of struct Stats that compile_stats increments, stat.rs:170-222
StatCounters == {"g", "gs", "b_1b", "b_2b", "b_3b", "b_hr", "b_bb", "b_ibb",
                 "b_hbp", "b_r", "b_rbi", "b_so", "b_o", "b_gidp", "b_sb", "b_cs",
                 "p_1b", "p_2b", "p_3b", "p_hr", "p_bb", "p_ibb", "p_hbp", "p_r",
                 "p_er", "p_w", "p_l", "p_sv", "p_bs", "p_hld", "p_cg", "p_sho",
                 "p_so", "p_o", "f_po", "f_e"}

\* stat_arm with a strikeout not counted as an out
stat_arm_so_only(stat) ==
    CASE stat = "Gs" -> {"gs", "g"}
      [] stat = "B1b" -> {"b_1b"}
      [] stat = "B2b" -> {"b_2b"}
      [] stat = "B3b" -> {"b_3b"}
      [] stat = "Bhr" -> {"b_hr"}
      [] stat = "Bbb" -> {"b_bb"}
      [] stat = "Bibb" -> {"b_ibb", "b_bb"}
      [] stat = "Bhbp" -> {"b_hbp"}
      [] stat = "Bso" -> {"b_so"}
      [] stat = "Bo" -> {"b_o"}
      [] stat = "Bgidp" -> {"b_gidp", "b_o"}
      [] stat = "Br" -> {"b_r"}
      [] stat = "Brbi" -> {"b_rbi"}
      [] stat = "Pso" -> {"p_so", "p_o"}
      [] OTHER -> {}

\* The arms of the `match stat`, stat.rs:331-390: the counters a stat adds 1 to
stat_arm(stat) ==
    CASE stat = "G" -> {"g"}
      [] stat = "Gs" -> {"gs", "g"}
      [] stat = "B1b" -> {"b_1b"}
      [] stat = "B2b" -> {"b_2b"}
      [] stat = "B3b" -> {"b_3b"}
      [] stat = "Bhr" -> {"b_hr"}
      [] stat = "Bbb" -> {"b_bb"}
      [] stat = "Bibb" -> {"b_ibb", "b_bb"}
      [] stat = "Bhbp" -> {"b_hbp"}
      [] stat = "Bso" -> {"b_so", "b_o"}
      [] stat = "Bo" -> {"b_o"}
      [] stat = "Bgidp" -> {"b_gidp", "b_o"}
      [] stat = "Bsb" -> {"b_sb"}
      [] stat = "Bcs" -> {"b_cs"}
      [] stat = "Br" -> {"b_r"}
      [] stat = "Brbi" -> {"b_rbi"}
      [] stat = "P1b" -> {"p_1b"}
      [] stat = "P2b" -> {"p_2b"}
      [] stat = "P3b" -> {"p_3b"}
      [] stat = "Phr" -> {"p_hr"}
      [] stat = "Pbb" -> {"p_bb"}
      [] stat = "Pibb" -> {"p_ibb", "p_bb"}
      [] stat = "Phbp" -> {"p_hbp"}
      [] stat = "Pso" -> {"p_so", "p_o"}
      [] stat = "Po" -> {"p_o"}
      [] stat = "Pr" -> {"p_r"}
      [] stat = "Per" -> {"p_er", "p_r"}
      [] stat = "Pw" -> {"p_w"}
      [] stat = "Pl" -> {"p_l"}
      [] stat = "Psv" -> {"p_sv"}
      [] stat = "Pbs" -> {"p_bs"}
      [] stat = "Phld" -> {"p_hld"}
      [] stat = "Pcg" -> {"p_cg"}
      [] stat = "Psho" -> {"p_sho"}
      [] stat = "Fpo" -> {"f_po"}
      [] stat = "Fe" -> {"f_e"}
      [] OTHER -> {}

\* Stats::div1000_or_0, stat.rs:279-281
div1000_or_0(n, d) == IF d > 0 THEN (n * 1000) \div d ELSE d

\* Stats::calculate, stat.rs:303-324: the derived fields next to the counters
calculate(c) ==
    LET b_h  == c["b_1b"] + c["b_2b"] + c["b_3b"] + c["b_hr"]
        b_ab == b_h + c["b_o"]
        b_pa == b_ab + c["b_bb"] + c["b_hbp"]
        p_h  == c["p_1b"] + c["p_2b"] + c["p_3b"] + c["p_hr"]
        p_ab == p_h + c["p_o"]
        p_bf == p_ab + c["p_bb"] + c["p_hbp"]
    IN  [counters |-> c,
         b_h |-> b_h, b_ab |-> b_ab, b_pa |-> b_pa,
         b_avg |-> div1000_or_0(b_h, b_ab),
         b_obp |-> div1000_or_0(b_h + c["b_bb"] + c["b_hbp"], b_pa),
         b_slg |-> div1000_or_0(c["b_1b"] + 2 * c["b_2b"] + 3 * c["b_3b"]
                                + 4 * c["b_hr"], b_ab),
         p_h |-> p_h, p_bf |-> p_bf,
         p_avg |-> div1000_or_0(p_h, p_ab),
         p_obp |-> div1000_or_0(p_h + c["p_bb"] + c["p_hbp"], p_bf),
         p_slg |-> div1000_or_0(c["p_1b"] + 2 * c["p_2b"] + 3 * c["p_3b"]
                                + 4 * c["p_hr"], p_ab),
         p_era |-> div1000_or_0(27 * c["p_er"], c["p_o"]),
         p_whip |-> div1000_or_0(3 * (p_h + c["p_bb"]), c["p_o"])]

\* The loop of compile_stats over the stream, stat.rs:330-391
RECURSIVE count_stream(_, _)
count_stream(c, stream) ==
    IF stream = <<>> THEN c
    ELSE count_stream([f \in StatCounters |->
                          IF f \in stat_arm(Head(stream)) THEN c[f] + 1 ELSE c[f]],
                      Tail(stream))

\* Stats::compile_stats, stat.rs:326-394
compile_stats(stream) ==
    calculate(count_stream([f \in StatCounters |-> 0], stream))

\* The stat part while another part runs
StatIdle == stat_stream = <<>>

\* A new player, or a player after reset_stats, player.rs:706-708
StatStart == stat_stream = <<>>

\* Player::record_stat, player.rs:710-712
RecordStat ==
    /\ Len(stat_stream) < MaxStream
    /\ \E stat \in StatsRecorded : stat_stream' = Append(stat_stream, stat)
    /\ UNCHANGED <<gameVars, schedVars, leagueVars, wlsVars, moreVars>>

StatNext == RecordStat

-----------------------------------------------------------------------------
(* Scoreboard::advance_onbase and Scoreboard::advance_batter on their own,    *)
(* game.rs:74-95, with runners that can be told apart.                       *)

\* The runner standing on base b before the call
runner_on(b) == <<"on", b>>

\* The batter of the call of advance_batter, game.rs:91
Batter == "batter"

\* The Scoreboards a call is made on: any occupancy of the four slots, and a
\* runs_in that is empty or holds a runner who scored earlier in the play
\* (record_runs empties it after every plate appearance).  Slot 0 is only
\* occupied inside advance_batter, game.rs:91-94.
BaseStates ==
    {[r |-> 0,
      onbase |-> [b \in 0..3 |-> IF b \in occ THEN Some(runner_on(b)) ELSE None],
      runs_in |-> ri] :
        occ \in SUBSET (0..3), ri \in {<<>>, <<"scored">>}}

\* The part while another part runs
BasesIdle ==
    /\ bases_pc = "idle"
    /\ bases_sb = NewScoreboard
    /\ bases_old = NewScoreboard
    /\ bases_call = None

\* A Scoreboard about to be advanced
BasesStart ==
    /\ bases_pc = "ready"
    /\ bases_sb \in BaseStates
    /\ bases_old = bases_sb
    /\ bases_call = None

\* A call of Scoreboard::advance_onbase, game.rs:74-87; start is a usize
AdvanceOnbase ==
    /\ bases_pc = "ready"
    /\ \E start \in 0..4 :
          /\ bases_sb' = advance_onbase(bases_sb, start)
          /\ bases_call' = Some(<<"advance_onbase", start>>)
    /\ bases_pc' = "done"
    /\ UNCHANGED <<bases_old, gameVars, schedVars, leagueVars, wlsVars, statVars, subVars, endVars,
                 drawVars, lateVars>>

\* A call of Scoreboard::advance_batter, game.rs:90-95, made as Game::sim
\* makes it: with an empty slot 0 and amt in 1..4.
AdvanceBatter ==
    /\ bases_pc = "ready"
    /\ bases_sb.onbase[0] = None
    /\ \E amt \in 1..4 :
          /\ bases_sb' = advance_batter(bases_sb, Batter, amt)
          /\ bases_call' = Some(<<"advance_batter", amt>>)
    /\ bases_pc' = "done"
    /\ UNCHANGED <<bases_old, gameVars, schedVars, leagueVars, wlsVars, statVars, subVars, endVars,
                 drawVars, lateVars>>

BasesNext == AdvanceOnbase \/ AdvanceBatter

-----------------------------------------------------------------------------
(* Game::sub_pitcher, game.rs:278-327 *)

\* `x as i8` of a u8 x, game.rs:280 and 285
as_i8(x) == IF x >= 128 THEN x - 256 ELSE x

\* The value an i8 computation wraps to when it leaves -128..127
wrap_i8(x) == ((x + 128) % 256) - 128

\* An i8 computation overflows: a build with overflow checks panics there, a
\* build without them goes on with the wrapped value
overflows_i8(x) == x < -128 \/ x > 127

\* The players of the explored team and Player.pos of each, player.rs:17-32
PlayerPos ==
    [sp1 |-> "StartingPitcher", lr1 |-> "LongRelief", sr1 |-> "ShortRelief",
     su1 |-> "Setup", su2 |-> "Setup", cl1 |-> "Closer", cf1 |-> "CenterField",
     sp2 |-> "StartingPitcher", sr2 |-> "ShortRelief"]

\* The bullpen players a team may or may not have
Bullpen == {"lr1", "sr1", "su1", "su2", "cl1"}

\* The pitchers that can be on the mound when sub_pitcher is called
Incumbents == {"sp1", "lr1", "sr1", "su1", "cl1"}

\* Game::max_pitches_for_pos, game.rs:267-276
max_pitches_for_pos(pos) ==
    CASE pos = "StartingPitcher" -> 110
      [] pos = "LongRelief" -> 50
      [] pos = "ShortRelief" -> 25
      [] pos = "Setup" -> 25
      [] pos = "Closer" -> 25
      [] OTHER -> 0

\* The Scoreboard fields sub_pitcher and record_pitcher work on, game.rs:52-63
PitScoreboard(r, pitcher, pitches, p_outs, diff_in, record) ==
    [r |-> r, pitcher |-> pitcher, pitches |-> pitches, pitcher_outs |-> p_outs,
     pitcher_run_diff_in |-> diff_in, pitcher_record |-> record]

\* Scoreboard::record_pitcher, game.rs:106-113, with the i8 difference wrapped
record_pitcher(sb, other_r) ==
    [sb EXCEPT !.pitcher_record =
        Append(@, PitcherRecord(sb.pitcher, sb.pitcher_outs, sb.pitcher_run_diff_in,
                                wrap_i8(as_i8(sb.r) - other_r)))]

\* used_pitchers, game.rs:292-293
used_pitchers(sb) ==
    {sb.pitcher_record[i].pitcher : i \in DOMAIN sb.pitcher_record} \cup {sb.pitcher}

\* available that forgets who has pitched
available_all(team, sb) == team

\* available, game.rs:294
available(team, sb) == team \ used_pitchers(sb)

\* `available.iter().filter(pos == role)`, game.rs:298-312: the players that
\* `choose(rng)` picks from
candidates(team, sb, role) == {p \in available(team, sb) : PlayerPos[p] = role}

\* run_diff, game.rs:290, before the i8 result is formed
raw_run_diff(sb, bat_r) == as_i8(sb.r) - as_i8(bat_r)

\* The first `let sub`, game.rs:296-306: the players the Setup / Closer rule
\* picks from, none when the rule does not apply
late_inning_pool(team, sb, number, run_diff) ==
    IF run_diff > 0 /\ run_diff <= 3
    THEN IF number = 8 /\ PlayerPos[sb.pitcher] # "Setup"
         THEN candidates(team, sb, "Setup")
         ELSE IF number >= 9 /\ PlayerPos[sb.pitcher] # "Closer"
              THEN candidates(team, sb, "Closer")
              ELSE {}
    ELSE {}

\* The second `let sub`, game.rs:308-316
sub_pool(team, sb, number, run_diff) ==
    LET first == late_inning_pool(team, sb, number, run_diff)
    IN  IF first = {} /\ sb.pitches > max_pitches_for_pos(PlayerPos[sb.pitcher])
        THEN IF number < 7
             THEN candidates(team, sb, "LongRelief")
             ELSE candidates(team, sb, "ShortRelief")
        ELSE first

\* The change of pitcher, game.rs:318-326
change_pitcher(sb, bat_r, run_diff, new_pitcher) ==
    [record_pitcher(sb, as_i8(bat_r)) EXCEPT
        !.pitcher = new_pitcher,
        !.pitches = 0,
        !.pitcher_outs = 0,
        !.pitcher_run_diff_in = run_diff]

\* The run totals sub_pitcher is explored with (u8)
RunsExplored == {0, 1, 3, 4, 127, 128, 255}

\* The innings sub_pitcher is explored in
InningsExplored == {6, 7, 8, 9, 10}

\* The part while another part runs
SubIdle ==
    /\ sub_pc = "idle"
    /\ sub_inning = 1
    /\ sub_bat_r = 0
    /\ sub_pit = PitScoreboard(0, "sp1", 0, 0, 0, <<>>)
    /\ sub_old = sub_pit
    /\ sub_team = {}
    /\ sub_log = <<>>

\* The state sub_pitcher is called in, game.rs:427: the starter is on the
\* mound, or a reliever who took over from the starter; the pitch count is
\* just below, at, or just above the maximum of the pitcher's role.
SubStart ==
    /\ sub_pc = "ready"
    /\ sub_inning \in InningsExplored
    /\ sub_bat_r \in RunsExplored
    /\ \E r \in RunsExplored, cur \in Incumbents, over \in {-1, 0, 1} :
          sub_pit = PitScoreboard(r, cur,
                                  max_pitches_for_pos(PlayerPos[cur]) + over, 3, 0,
                                  IF cur = "sp1" THEN <<>>
                                  ELSE <<PitcherRecord("sp1", 15, 0, 0)>>)
    /\ sub_old = sub_pit
    /\ \E pen \in SUBSET Bullpen : sub_team = {"sp1", "cf1", sub_pit.pitcher} \cup pen
    /\ sub_log = <<>>

\* Game::sub_pitcher, game.rs:278-327; `choose(rng)` picks any player of the
\* pool, and nobody from an empty one
SubPitcher ==
    /\ sub_pc = "ready"
    /\ ~overflows_i8(raw_run_diff(sub_pit, sub_bat_r))
    /\ LET run_diff == raw_run_diff(sub_pit, sub_bat_r)
           pool == sub_pool(sub_team, sub_pit, sub_inning, run_diff)
       IN  IF pool = {}
           THEN UNCHANGED <<sub_pit, sub_log>>
           ELSE \E new_pitcher \in pool :
                  /\ sub_pit' = change_pitcher(sub_pit, sub_bat_r, run_diff, new_pitcher)
                  /\ sub_log' = record_stat(sub_log, new_pitcher, "G", None)
    /\ sub_pc' = "done"
    /\ UNCHANGED <<sub_inning, sub_bat_r, sub_old, sub_team,
                   gameVars, schedVars, leagueVars, wlsVars, statVars, basesVars, endVars, drawVars, lateVars>>

\* Game::sub_pitcher when `pit_r - bat_r` overflows and the build does not
\* check for it: the wrapped difference is used, game.rs:290
SubPitcherWrapped ==
    /\ sub_pc = "ready"
    /\ overflows_i8(raw_run_diff(sub_pit, sub_bat_r))
    /\ LET run_diff == wrap_i8(raw_run_diff(sub_pit, sub_bat_r))
           pool == sub_pool(sub_team, sub_pit, sub_inning, run_diff)
       IN  IF pool = {}
           THEN UNCHANGED <<sub_pit, sub_log>>
           ELSE \E new_pitcher \in pool :
                  /\ sub_pit' = change_pitcher(sub_pit, sub_bat_r, run_diff, new_pitcher)
                  /\ sub_log' = record_stat(sub_log, new_pitcher, "G", None)
    /\ sub_pc' = "done"
    /\ UNCHANGED <<sub_inning, sub_bat_r, sub_old, sub_team,
                   gameVars, schedVars, leagueVars, wlsVars, statVars, basesVars, endVars, drawVars, lateVars>>

\* Game::sub_pitcher when `pit_r - bat_r` overflows and the build checks for
\* it: the subtraction panics, game.rs:290
SubPitcherPanic ==
    /\ sub_pc = "ready"
    /\ overflows_i8(raw_run_diff(sub_pit, sub_bat_r))
    /\ sub_pc' = "panic"
    /\ UNCHANGED <<sub_inning, sub_bat_r, sub_pit, sub_old, sub_team, sub_log,
                   gameVars, schedVars, leagueVars, wlsVars, statVars, basesVars, endVars, drawVars, lateVars>>

SubNext == SubPitcher \/ SubPitcherWrapped \/ SubPitcherPanic

-----------------------------------------------------------------------------
(* The end of Game::sim, game.rs:576-589 *)

\* The pitchers of a side: the starter and one reliever
side_pitcher(side, k) == <<side, k>>

\* The run difference a starter left with when a reliever took over
HandoverDiffs == {-1, 0, 1}

\* A side's Scoreboard when the loop of Game::sim stops: the starter still
\* pitches, or a reliever who took over from the starter
EndScoreboards(side, r) ==
    {PitScoreboard(r, side_pitcher(side, 1), 90, 24, 0, <<>>)}
    \cup {PitScoreboard(r, side_pitcher(side, 2), 20, 6, d,
                        <<PitcherRecord(side_pitcher(side, 1), 18, 0, d)>>) :
              d \in HandoverDiffs}

\* The part while another part runs
EndIdle ==
    /\ end_pc = "idle"
    /\ end_inning = [number |-> 1, half |-> "Top"]
    /\ end_home = PitScoreboard(0, side_pitcher("home", 1), 0, 0, 0, <<>>)
    /\ end_away = PitScoreboard(0, side_pitcher("away", 1), 0, 0, 0, <<>>)
    /\ end_log = <<>>
    /\ end_results = [home |-> NewResults, away |-> NewResults]

\* The state after the loop of Game::sim, game.rs:409: is_complete holds
EndStart ==
    /\ end_pc = "ready"
    /\ end_inning \in [number : {9, 10}, half : InningHalf]
    /\ \E hr \in RunsExplored, ar \in RunsExplored :
          /\ end_home \in EndScoreboards("home", hr)
          /\ end_away \in EndScoreboards("away", ar)
    /\ is_complete(end_inning, end_home, end_away)
    /\ end_log = <<>>
    /\ end_results = [home |-> NewResults, away |-> NewResults]

\* The side at bat and the side in the field when the loop stopped
end_batting == batting(end_inning, end_home, end_away)
end_pitching == pitching(end_inning, end_home, end_away)

\* `self.r as i8 - other_r` of the two calls of record_pitcher, game.rs:579
\* and 585, before the i8 result is formed
pitching_diff == as_i8(end_pitching.r) - as_i8(end_batting.r)
batting_diff == as_i8(end_batting.r) - as_i8(end_pitching.r)

\* The decisions logged in the order of game.rs:579-586: the side in the
\* field first, then the side at bat
end_decisions ==
    LET bat_r == as_i8(end_batting.r)
        pit_r == as_i8(end_pitching.r)
        l1 == record_wls(end_log, record_pitcher(end_pitching, bat_r).pitcher_record, bat_r)
    IN  record_wls(l1, record_pitcher(end_batting, pit_r).pitcher_record, pit_r)

\* The two scoreboards after both calls of record_pitcher
end_recorded ==
    LET bat == record_pitcher(end_batting, as_i8(end_pitching.r))
        pit == record_pitcher(end_pitching, as_i8(end_batting.r))
    IN  IF is_away_ab(end_inning)
        THEN [home |-> pit, away |-> bat]
        ELSE [home |-> bat, away |-> pit]

\* Team::results of both teams, game.rs:588-589
end_team_results ==
    [home |-> results(end_results.home, end_home.r, end_away.r),
     away |-> results(end_results.away, end_away.r, end_home.r)]

\* The end of Game::sim, game.rs:576-589, when no i8 subtraction overflows
EndOfGame ==
    /\ end_pc = "ready"
    /\ ~overflows_i8(pitching_diff) /\ ~overflows_i8(batting_diff)
    /\ end_home' = end_recorded.home
    /\ end_away' = end_recorded.away
    /\ end_log' = end_decisions
    /\ end_results' = end_team_results
    /\ end_pc' = "done"
    /\ UNCHANGED <<end_inning, gameVars, schedVars, leagueVars, wlsVars, statVars,
                   basesVars, subVars, drawVars, lateVars>>

\* The end of Game::sim when a subtraction of record_pitcher overflows and
\* the build does not check for it: the wrapped differences are recorded
EndOfGameWrapped ==
    /\ end_pc = "ready"
    /\ overflows_i8(pitching_diff) \/ overflows_i8(batting_diff)
    /\ end_home' = end_recorded.home
    /\ end_away' = end_recorded.away
    /\ end_log' = end_decisions
    /\ end_results' = end_team_results
    /\ end_pc' = "done"
    /\ UNCHANGED <<end_inning, gameVars, schedVars, leagueVars, wlsVars, statVars,
                   basesVars, subVars, drawVars, lateVars>>

\* The end of Game::sim when a subtraction of record_pitcher overflows and
\* the build checks for it: the call panics, game.rs:110, before any
\* decision of that side and any team result is recorded
EndOfGamePanic ==
    /\ end_pc = "ready"
    /\ overflows_i8(pitching_diff) \/ overflows_i8(batting_diff)
    /\ end_log' = IF overflows_i8(pitching_diff)
                  THEN end_log
                  ELSE record_wls(end_log,
                                  record_pitcher(end_pitching,
                                                 as_i8(end_batting.r)).pitcher_record,
                                  as_i8(end_batting.r))
    /\ end_pc' = "panic"
    /\ UNCHANGED <<end_inning, end_home, end_away, end_results,
                   gameVars, schedVars, leagueVars, wlsVars, statVars,
                   basesVars, subVars, drawVars, lateVars>>

EndNext == EndOfGame \/ EndOfGameWrapped \/ EndOfGamePanic

-----------------------------------------------------------------------------
(* The weighted draws: Game::get_expected_pa, game.rs:228-236, and the draw *)
(* of Player::determine_spray, player.rs:635-645                            *)

\* The outcome of a call that panics
Panic == "panic"

\* The two runs that are compared
Runs == {"a", "b"}

\* The weights a key is explored with
WeightsExplored == {0, 1, 2}

\* The keys of the maps the draws are explored on: three categories of an
\* ExpectMap for get_expected_pa, the three positions of a HomeRun chart for
\* determine_spray
DrawKeys(fn) ==
    IF fn = "get_expected_pa" THEN {"Single", "Walk", "Out"} ELSE OutfieldPositions

\* The orders in which `iter()` of a std HashMap can yield the keys: any
\* order, fixed by the hasher keys of the map, which std draws per process
\* and not from the generator passed to Game::sim
IterationOrders(keys) ==
    {order \in [1..Cardinality(keys) -> keys] :
        \A i, j \in DOMAIN order : order[i] = order[j] => i = j}

\* The sum of the weights of the first n items
RECURSIVE prefix_weight(_, _, _)
prefix_weight(order, w, n) ==
    IF n = 0 THEN 0 ELSE prefix_weight(order, w, n - 1) + w[order[n]]

\* SliceRandom::choose_weighted on the collected Vec: Err (None here) when
\* all weights are zero, else the first item whose running total exceeds the
\* value sampled below the total
choose_weighted(order, w, roll) ==
    IF prefix_weight(order, w, Len(order)) = 0
    THEN None
    ELSE Some(order[CHOOSE i \in DOMAIN order :
                        /\ roll < prefix_weight(order, w, i)
                        /\ \A j \in 1..(i - 1) : roll >= prefix_weight(order, w, j)])

\* `.unwrap()` of the Result of choose_weighted
unwrap_or_panic(res) == IF res = None THEN Panic ELSE Unwrap(res)

\* Game::get_expected_pa, game.rs:228-236, on the blended weights
get_expected_pa(order, w, roll) == unwrap_or_panic(choose_weighted(order, w, roll))

\* Player::determine_spray, player.rs:635-645: chart is `merged.get(expect)`
spray_draw(order, chart, roll) ==
    IF chart # None
    THEN unwrap_or_panic(choose_weighted(order, Unwrap(chart), roll))
    ELSE "CenterField"

\* The values the generator can yield for a draw over the weights
Rolls(chart) ==
    IF chart = None THEN {0}
    ELSE LET w == Unwrap(chart)
             order == CHOOSE o \in IterationOrders(DOMAIN w) : TRUE
             total == prefix_weight(order, w, Len(order))
         IN  IF total = 0 THEN {0} ELSE 0..(total - 1)

\* The part while another part runs
DrawIdle ==
    /\ draw_pc = "idle"
    /\ draw_fn = "get_expected_pa"
    /\ draw_weights = None
    /\ draw_roll = 0
    /\ draw_order = [run \in Runs |-> <<>>]
    /\ draw_result = [run \in Runs |-> None]

\* Two runs about to make the same draw: the same function on maps of the
\* same content and the same value from the generator; each run's map has
\* its own iteration order
DrawStart ==
    /\ draw_pc = "ready"
    /\ draw_fn \in {"get_expected_pa", "determine_spray"}
    /\ \/ \E w \in [DrawKeys(draw_fn) -> WeightsExplored] : draw_weights = Some(w)
       \/ draw_fn = "determine_spray" /\ draw_weights = None
    /\ draw_roll \in Rolls(draw_weights)
    /\ draw_order \in [Runs -> IterationOrders(DrawKeys(draw_fn))]
    /\ draw_result = [run \in Runs |-> None]

\* The call of get_expected_pa in both runs, game.rs:440
GetExpectedPa ==
    /\ draw_pc = "ready"
    /\ draw_fn = "get_expected_pa"
    /\ draw_result' = [run \in Runs |->
          Some(get_expected_pa(draw_order[run], Unwrap(draw_weights), draw_roll))]
    /\ draw_pc' = "done"
    /\ UNCHANGED <<draw_fn, draw_weights, draw_roll, draw_order,
                   gameVars, schedVars, leagueVars, wlsVars, statVars,
                   basesVars, subVars, endVars, lateVars>>

\* The call of determine_spray in both runs, game.rs:441
DetermineSpray ==
    /\ draw_pc = "ready"
    /\ draw_fn = "determine_spray"
    /\ draw_result' = [run \in Runs |->
          Some(spray_draw(draw_order[run], draw_weights, draw_roll))]
    /\ draw_pc' = "done"
    /\ UNCHANGED <<draw_fn, draw_weights, draw_roll, draw_order,
                   gameVars, schedVars, leagueVars, wlsVars, statVars,
                   basesVars, subVars, endVars, lateVars>>

DrawNext == GetExpectedPa \/ DetermineSpray

-----------------------------------------------------------------------------
(* Game::setup_pitcher over the games of one team, game.rs:175-183 *)

\* The games of the team that are explored
MaxGames == 6

\* The five starters of a team, team.rs:170-173
RotationPitchers == {"sp1", "sp2", "sp3", "sp4", "sp5"}

\* The rotations a team can have before its first game: the starters in any
\* order
StartingRotations ==
    {rot \in [1..5 -> RotationPitchers] :
        \A i, j \in 1..5 : rot[i] = rot[j] => i = j}

\* rotate_left that turns the array the other way
rotate_right(rot, n) ==
    [i \in 1..Len(rot) |-> rot[((i - 1 + Len(rot) - n) % Len(rot)) + 1]]

\* `rotation.rotate_left(n)` of a slice, game.rs:179
rotate_left(rot, n) ==
    [i \in 1..Len(rot) |-> rot[((i - 1 + n) % Len(rot)) + 1]]

\* The part while another part runs
RotIdle ==
    /\ rot_pc = "idle"
    /\ rotation = <<>>
    /\ rotation_start = <<>>
    /\ rot_pitcher = None
    /\ rot_log = <<>>

\* A team before its first game, team.rs:157-174
RotStart ==
    /\ rot_pc = "season"
    /\ rotation \in StartingRotations
    /\ rotation_start = rotation
    /\ rot_pitcher = None
    /\ rot_log = <<>>

\* Game::setup_pitcher for the team's next game, game.rs:175-183
SetupPitcher ==
    /\ rot_pc = "season"
    /\ Len(rot_log) < MaxGames
    /\ rot_pitcher' = Some(rotation[1])
    /\ rot_log' = record_stat(rot_log, rotation[1], "Gs", None)
    /\ rotation' = rotate_left(rotation, 1)
    /\ UNCHANGED <<rot_pc, rotation_start, earlyVars, staffVars, playVars, tailVars>>

RotNext == SetupPitcher

-----------------------------------------------------------------------------
(* The pitching of one side through the loop and the end of Game::sim,      *)
(* game.rs:409-589: the fields of the side's Scoreboard that sub_pitcher,   *)
(* record_pitcher and the plate appearance write for the pitching side, the *)
(* run total of the other side, the inning and the outs.                    *)

\* The runs explored after the start
MaxScored == 1

\* The plate appearances a pitcher is left in after the maximum of the role
MaxOverwork == 120

\* The run totals <<side, other side>> the game is at when the sixth begins
StaffScores == {<<0, 0>>, <<2, 0>>, <<127, 0>>, <<127, 1>>}

\* The pitches a plate appearance takes, game.rs:447
PitchesExplored == {26, 51}

\* The teams explored: the starter, a position player, and no bullpen, two
\* relievers or the whole bullpen
StaffTeams == {{"sp1", "cf1"} \cup pen : pen \in {{}, {"lr1", "sr1"}, Bullpen}}

\* The two Scoreboards as Game::is_complete reads them
staff_home == IF staff_side = "home" THEN staff_sb ELSE [r |-> staff_other_r]
staff_away == IF staff_side = "away" THEN staff_sb ELSE [r |-> staff_other_r]

\* The side is in the field in this half
staff_pitches_now ==
    IF is_away_ab(staff_inning) THEN staff_side = "home" ELSE staff_side = "away"

\* The part while another part runs
StaffIdle ==
    /\ staff_pc = "idle"
    /\ staff_side = "home"
    /\ staff_inning = [number |-> 1, half |-> "Top"]
    /\ staff_outs = 0
    /\ staff_sb = PitScoreboard(0, "sp1", 0, 0, 0, <<>>)
    /\ staff_other_r = 0
    /\ staff_team = {}
    /\ staff_fielded = 0
    /\ staff_scored = 0
    /\ staff_log = <<>>

\* The game at the top of the sixth, the side's starter still pitching
StaffStart ==
    /\ staff_pc = "loop"
    /\ staff_side \in {"home", "away"}
    /\ staff_inning = [number |-> 6, half |-> "Top"]
    /\ staff_outs = 0
    /\ \E score \in StaffScores :
          /\ staff_sb = PitScoreboard(score[1], "sp1", 60, 15, 0, <<>>)
          /\ staff_other_r = score[2]
    /\ staff_team \in StaffTeams
    /\ staff_fielded = 15
    /\ staff_scored = 0
    /\ staff_log = <<>>

\* Loop iteration with half = Middle, game.rs:410-416
StaffMiddleTick ==
    /\ staff_pc = "loop"
    /\ ~is_complete(staff_inning, staff_home, staff_away)
    /\ staff_inning.half = "Middle"
    /\ staff_outs' = 0
    /\ staff_inning' = [staff_inning EXCEPT !.half = "Bottom"]
    /\ UNCHANGED <<staff_pc, staff_side, staff_sb, staff_other_r, staff_team,
                   staff_fielded, staff_scored, staff_log, earlyVars, rotVars, playVars, tailVars>>

\* Loop iteration with half = End, game.rs:417-424
StaffEndTick ==
    /\ staff_pc = "loop"
    /\ ~is_complete(staff_inning, staff_home, staff_away)
    /\ staff_inning.half = "End"
    /\ staff_inning.number < MaxInning
    /\ staff_outs' = 0
    /\ staff_inning' = [number |-> staff_inning.number + 1, half |-> "Top"]
    /\ UNCHANGED <<staff_pc, staff_side, staff_sb, staff_other_r, staff_team,
                   staff_fielded, staff_scored, staff_log, earlyVars, rotVars, playVars, tailVars>>

\* The pitching Scoreboard and the log after sub_pitcher, game.rs:278-327,
\* for the run difference the call works with
staff_after_sub(run_diff) ==
    LET pool == sub_pool(staff_team, staff_sb, staff_inning.number, run_diff)
    IN  IF pool = {}
        THEN {[sb |-> staff_sb, log |-> staff_log]}
        ELSE {[sb |-> change_pitcher(staff_sb, staff_other_r, run_diff, new_pitcher),
               log |-> record_stat(staff_log, new_pitcher, "G", None)] :
                 new_pitcher \in pool}

\* Loop iteration with the side in the field, game.rs:425-573: sub_pitcher,
\* then the plate appearance, of which the pitches, the outs and the runs of
\* the side at bat are kept
StaffPitch ==
    /\ staff_pc = "loop"
    /\ ~is_complete(staff_inning, staff_home, staff_away)
    /\ staff_inning.half \in {"Top", "Bottom"}
    /\ staff_pitches_now
    /\ \E after \in staff_after_sub(wrap_i8(raw_run_diff(staff_sb, staff_other_r))),
          pitches \in PitchesExplored, result_outs \in 0..2, runs \in 0..1 :
          /\ result_outs = 2 => staff_outs < 2
          /\ staff_scored + runs <= MaxScored
          /\ after.sb.pitches + pitches
                <= max_pitches_for_pos(PlayerPos[after.sb.pitcher]) + MaxOverwork
          /\ staff_sb' = [after.sb EXCEPT
                            !.pitches = @ + pitches,
                            !.pitcher_outs = (@ + result_outs) % 256]
          /\ staff_log' = after.log
          /\ staff_other_r' = (staff_other_r + runs) % 256
          /\ staff_scored' = staff_scored + runs
          /\ staff_outs' = staff_outs + result_outs
          /\ staff_fielded' = staff_fielded + result_outs
          /\ staff_inning' =
                [staff_inning EXCEPT !.half = next_half(@, staff_outs + result_outs)]
    /\ UNCHANGED <<staff_pc, staff_side, staff_team, earlyVars, rotVars, playVars, tailVars>>

\* Loop iteration with the side in the field in a build that checks for
\* overflow, when `pit_r - bat_r` of sub_pitcher overflows, game.rs:290
StaffPitchPanic ==
    /\ staff_pc = "loop"
    /\ ~is_complete(staff_inning, staff_home, staff_away)
    /\ staff_inning.half \in {"Top", "Bottom"}
    /\ staff_pitches_now
    /\ overflows_i8(raw_run_diff(staff_sb, staff_other_r))
    /\ staff_pc' = "panic"
    /\ UNCHANGED <<staff_side, staff_inning, staff_outs, staff_sb, staff_other_r,
                   staff_team, staff_fielded, staff_scored, staff_log,
                   earlyVars, rotVars, playVars, tailVars>>

\* Loop iteration with the side at bat, game.rs:425-573, of which the runs
\* of the side and the outs are kept
StaffBat ==
    /\ staff_pc = "loop"
    /\ ~is_complete(staff_inning, staff_home, staff_away)
    /\ staff_inning.half \in {"Top", "Bottom"}
    /\ ~staff_pitches_now
    /\ \E result_outs \in 0..2, runs \in 0..1 :
          /\ result_outs + runs > 0
          /\ result_outs = 2 => staff_outs < 2
          /\ staff_scored + runs <= MaxScored
          /\ staff_sb' = [staff_sb EXCEPT !.r = (@ + runs) % 256]
          /\ staff_scored' = staff_scored + runs
          /\ staff_outs' = staff_outs + result_outs
          /\ staff_inning' =
                [staff_inning EXCEPT !.half = next_half(@, staff_outs + result_outs)]
    /\ UNCHANGED <<staff_pc, staff_side, staff_other_r, staff_team, staff_fielded,
                   staff_log, earlyVars, rotVars, playVars, tailVars>>

\* `self.r as i8 - other_r` of the side's last record_pitcher, game.rs:110
staff_final_diff == as_i8(staff_sb.r) - as_i8(staff_other_r)

\* The end of Game::sim for the side, game.rs:576-586: the last stint is
\* archived
StaffFinal ==
    /\ staff_pc = "loop"
    /\ is_complete(staff_inning, staff_home, staff_away)
    /\ staff_sb' = record_pitcher(staff_sb, as_i8(staff_other_r))
    /\ staff_pc' = "done"
    /\ UNCHANGED <<staff_side, staff_inning, staff_outs, staff_other_r, staff_team,
                   staff_fielded, staff_scored, staff_log, earlyVars, rotVars, playVars, tailVars>>

\* The end of Game::sim in a build that checks for overflow, when a
\* subtraction of record_pitcher overflows, game.rs:110
StaffFinalPanic ==
    /\ staff_pc = "loop"
    /\ is_complete(staff_inning, staff_home, staff_away)
    /\ overflows_i8(staff_final_diff) \/ overflows_i8(-staff_final_diff)
    /\ staff_pc' = "panic"
    /\ UNCHANGED <<staff_side, staff_inning, staff_outs, staff_sb, staff_other_r,
                   staff_team, staff_fielded, staff_scored, staff_log,
                   earlyVars, rotVars, playVars, tailVars>>

StaffNext ==
    \/ StaffMiddleTick \/ StaffEndTick \/ StaffPitch \/ StaffPitchPanic
    \/ StaffBat \/ StaffFinal \/ StaffFinalPanic

-----------------------------------------------------------------------------
(* The loop of Game::sim with the play-by-play log, game.rs:409-573: both   *)
(* Scoreboards with their runners (struct RunnerInfo), batting order and    *)
(* pitcher, and the events every loop iteration pushes to the boxscore.     *)
(* The game is taken up at the top of the ninth with no run scored, and is  *)
(* followed for MaxPA plate appearances.                                    *)

\* The plate appearances followed with every draw from the state the game is
\* taken up in.
MaxPA == 3
\* The plate appearances followed after them, each drawn as a Strikeout.
MaxTail == 2

\* team.players of the two teams: the pitchers sub_pitcher can ask for
PlayRoster == [home |-> {"sp1", "sr1"}, away |-> {"sp2", "sr2"}]

\* The targets a plate appearance of this part is explored with
PlayTargets == TargetsExplored \cup {"StartingPitcher"}

\* The values `gen_gamma(..).round().max(1.0)` is explored with, game.rs:447
PlayPitches == {2}

\* The values of Scoreboard.ab of the home and of the away side the game is
\* taken up with
PlayStartAb == {<<0, 8>>, <<8, 3>>}

\* DefenseInfo.pos of the nine slots of Scoreboard.bo, game.rs:193-199
LineupPos == <<"Catcher", "FirstBase", "SecondBase", "ThirdBase", "ShortStop",
               "LeftField", "CenterField", "RightField", "DesignatedHitter">>

\* `bo[slot].player` of a side, game.rs:434 (slots count from 0)
bo_player(side, slot) == <<side, slot>>

\* Scoreboard::player_at_pos, game.rs:97-99, StartingPitcher being the only
\* pitcher position a spray chart names
player_at_pos(side, sb, pos) ==
    IF pos = "StartingPitcher"
    THEN sb.pitcher
    ELSE bo_player(side, (CHOOSE i \in 1..9 : LineupPos[i] = pos) - 1)

\* struct Scoreboard, game.rs:50-64, of a side that has not scored
PlayScoreboard(e, ab, pitcher, pitches, p_outs) ==
    [r |-> 0, h |-> 0, e |-> e,
     onbase |-> [b \in 0..3 |-> None],
     runs_in |-> <<>>,
     ab |-> ab,
     pitcher |-> pitcher, pitches |-> pitches, pitcher_outs |-> p_outs,
     pitcher_run_diff_in |-> 0, pitcher_record |-> <<>>]

\* earned that never looks at the virtual outs
earned_always(v_outs) == TRUE

\* `let earned = virtual_outs < 3`, game.rs:425
earned_at(v_outs) == v_outs < 3

\* Expect::to_batting_stat, player.rs:394-406
to_batting_stat(result) ==
    CASE result = "Single" -> Some("B1b")
      [] result = "Double" -> Some("B2b")
      [] result = "Triple" -> Some("B3b")
      [] result = "HomeRun" -> Some("Bhr")
      [] result = "Walk" -> Some("Bbb")
      [] result = "HitByPitch" -> Some("Bhbp")
      [] result = "Strikeout" -> Some("Bso")
      [] result = "Out" -> Some("Bo")
      [] result = "Error" -> Some("Bo")

\* to_pitching_stat with the Strikeout taken as any other out
to_pitching_stat_out(result) ==
    CASE result = "Single" -> Some("P1b")
      [] result = "Double" -> Some("P2b")
      [] result = "Triple" -> Some("P3b")
      [] result = "HomeRun" -> Some("Phr")
      [] result = "Walk" -> Some("Pbb")
      [] result = "HitByPitch" -> Some("Phbp")
      [] result = "Strikeout" -> Some("Po")
      [] result = "Out" -> Some("Po")
      [] result = "Error" -> None

\* Expect::to_pitching_stat, player.rs:407-419
to_pitching_stat(result) ==
    CASE result = "Single" -> Some("P1b")
      [] result = "Double" -> Some("P2b")
      [] result = "Triple" -> Some("P3b")
      [] result = "HomeRun" -> Some("Phr")
      [] result = "Walk" -> Some("Pbb")
      [] result = "HitByPitch" -> Some("Phbp")
      [] result = "Strikeout" -> Some("Pso")
      [] result = "Out" -> Some("Po")
      [] result = "Error" -> None

\* box_target after the `match result`, game.rs:449-531
box_target(result, target) ==
    IF result \in {"Walk", "HitByPitch", "Strikeout"} THEN None ELSE Some(target)

\* `pitches` after the `match result`, game.rs:447, 485 and 499
pitches_thrown(result, drawn) ==
    CASE result = "Walk" -> IF drawn < 4 THEN 4 ELSE drawn
      [] result = "Strikeout" -> IF drawn < 3 THEN 3 ELSE drawn
      [] OTHER -> drawn

\* The single's arm without the right-field case
single_arm_plain(sb, target, runner) == advance_batter(sb, runner, 1)

\* The `Expect::Single` arm of Game::sim, game.rs:452-463
single_arm(sb, target, runner) ==
    advance_batter(IF target = "RightField"
                   THEN advance_onbase(advance_onbase(sb, 3), 2)
                   ELSE sb,
                   runner, 1)

\* The `match result` of Game::sim, game.rs:451-531, with the RunnerInfo of
\* the batter and the counters h and e: the batting Scoreboard after the play
\* and result_outs
match_result(sb, result, target, cur_outs, runner) ==
    LET hit == [sb EXCEPT !.h = @ + 1]
    IN  CASE result = "Single" ->
                [sb |-> single_arm(hit, target, runner), add_outs |-> 0]
          [] result = "Double" -> [sb |-> advance_batter(hit, runner, 2), add_outs |-> 0]
          [] result = "Triple" -> [sb |-> advance_batter(hit, runner, 3), add_outs |-> 0]
          [] result = "HomeRun" -> [sb |-> advance_batter(hit, runner, 4), add_outs |-> 0]
          [] result = "Walk" -> [sb |-> advance_batter(sb, runner, 1), add_outs |-> 0]
          [] result = "HitByPitch" -> [sb |-> advance_batter(sb, runner, 1), add_outs |-> 0]
          [] result = "Error" ->
                [sb |-> advance_batter([sb EXCEPT !.e = @ + 1],
                                       [runner EXCEPT !.earned = FALSE], 1),
                 add_outs |-> 0]
          [] result = "Strikeout" -> [sb |-> sb, add_outs |-> 1]
          [] result = "Out" -> out_arm(sb, cur_outs, target)

\* The Fe / Fpo event of the fielder, game.rs:493 and 528
fielder_events(log, fielder_id, result) ==
    CASE result = "Error" -> record_stat(log, fielder_id, "Fe", None)
      [] result = "Out" -> record_stat(log, fielder_id, "Fpo", None)
      [] OTHER -> log

\* `count` events Brbi of the batter
RECURSIVE brbi_times(_, _, _)
brbi_times(log, batter_id, count) ==
    IF count = 0 THEN log
    ELSE brbi_times(record_stat(log, batter_id, "Brbi", None), batter_id, count - 1)

\* rbi_events that does not look at the result
rbi_events_always(log, batter_id, result, runs_in) ==
    brbi_times(log, batter_id, Len(runs_in))

\* The Brbi events, game.rs:535-539
rbi_events(log, batter_id, result, runs_in) ==
    IF result # "Error" THEN brbi_times(log, batter_id, Len(runs_in)) ELSE log

\* The event of the pitcher, game.rs:541-543
pitching_event(log, pitcher_id, result) ==
    IF to_pitching_stat(result) # None
    THEN record_stat(log, pitcher_id, Unwrap(to_pitching_stat(result)), None)
    ELSE log

\* The Br and Per / Pr events of the runners that scored, game.rs:545-552
RECURSIVE run_events(_, _)
run_events(log, runs_in) ==
    IF runs_in = <<>> THEN log
    ELSE LET runner == Head(runs_in)
             scored == record_stat(log, runner.runner, "Br", None)
         IN  run_events(record_stat(scored, runner.pitcher,
                                    IF runner.earned THEN "Per" ELSE "Pr", None),
                        Tail(runs_in))

\* ab that is not taken modulo 9
next_ab_unbounded(ab) == ab + 1

\* `(bat_scoreboard.ab + 1) % 9`, game.rs:556
next_ab(ab) == (ab + 1) % 9

\* The events of a log pushed for the players of a set
events_for(log, players, events) ==
    Len(SelectSeq(log, LAMBDA ev : ev.player \in players /\ ev.event \in events))

\* The players of a side's batting order
BattingOrder(side) == {bo_player(side, slot) : slot \in 0..8}

\* The other side
other_side(side) == IF side = "home" THEN "away" ELSE "home"

\* The side at bat, game.rs:250-252
play_bat_side == IF is_away_ab(play_inning) THEN "away" ELSE "home"

\* The part while another part runs
PlayIdle ==
    /\ play_pc = "idle"
    /\ play_inning = [number |-> 1, half |-> "Top"]
    /\ play_outs = 0
    /\ play_virtual_outs = 0
    /\ play_home = PlayScoreboard(0, 0, "sp1", 0, 0)
    /\ play_away = PlayScoreboard(0, 0, "sp2", 0, 0)
    /\ play_log = <<>>
    /\ play_last = None
    /\ play_count = [home |-> 0, away |-> 0]
    /\ play_start_ab = [home |-> 0, away |-> 0]
    /\ play_start_outs = [home |-> 0, away |-> 0]
    /\ play_reached = <<>>
    /\ play_tally = [side \in {"home", "away"} |-> [br |-> 0, charged |-> 0, outs |-> 0]]

\* The states the game is taken up in: the half, the outs and the virtual outs
\* of the half, the errors charged to the side at bat, and whether the bases
\* are loaded.  With nobody on there is no out yet, or there are two, the
\* second of them made after an error or not; the bases are loaded by three
\* walks that opened the half.
PlayStarts == {<<"Top", 0, 0, 0, FALSE>>, <<"Top", 2, 2, 0, FALSE>>,
               <<"Top", 2, 3, 1, FALSE>>, <<"Bottom", 2, 2, 0, FALSE>>,
               <<"Top", 0, 0, 0, TRUE>>}

\* The runner of a side who walked, facing a pitcher, `back` plate appearances
\* before the side's batting-order index stood at ab
walked(side, ab, back, pitcher) ==
    [runner |-> bo_player(side, (ab + 9 - back) % 9), pitcher |-> pitcher,
     earned |-> TRUE]

\* The game in the ninth, no run scored, both starters at their limit
PlayStart ==
    /\ play_pc = "loop"
    /\ \E start \in PlayStarts, ab \in PlayStartAb :
          LET top == start[1] = "Top"
              on == IF start[5]
                    THEN [b \in 0..3 |-> IF b = 0 THEN None
                                          ELSE Some(walked("away", ab[2], b, "sp1"))]
                    ELSE [b \in 0..3 |-> None]
          IN  /\ play_inning = [number |-> 9, half |-> start[1]]
              /\ play_outs = start[2]
              /\ play_virtual_outs = start[3]
              /\ play_away =
                    [PlayScoreboard(IF top THEN start[4] ELSE 0, ab[2], "sp2", 110,
                                    IF top THEN 24 ELSE 24 + start[2])
                       EXCEPT !.onbase = on]
              /\ play_home = PlayScoreboard(IF top THEN 0 ELSE start[4], ab[1], "sp1",
                                            110, IF top THEN 24 + start[2] ELSE 27)
              /\ play_reached =
                    [p \in IF start[5]
                           THEN {bo_player("away", (ab[2] + 9 - b) % 9) : b \in 1..3}
                           ELSE {} |->
                       [pitcher |-> "sp1", virtual_outs |-> 0, result |-> "Walk"]]
    /\ play_log = <<>>
    /\ play_last = None
    /\ play_count = [home |-> 0, away |-> 0]
    /\ play_start_ab = [home |-> play_home.ab, away |-> play_away.ab]
    /\ play_start_outs = [home |-> play_home.pitcher_outs, away |-> play_away.pitcher_outs]
    /\ play_tally = [side \in {"home", "away"} |-> [br |-> 0, charged |-> 0, outs |-> 0]]

\* Loop iteration with half = Middle, game.rs:410-416
PlayMiddleTick ==
    /\ play_pc = "loop"
    /\ ~is_complete(play_inning, play_home, play_away)
    /\ play_inning.half = "Middle"
    /\ play_home' = clear_onbase(play_home)
    /\ play_outs' = 0
    /\ play_virtual_outs' = 0
    /\ play_inning' = [play_inning EXCEPT !.half = "Bottom"]
    /\ play_log' = <<>>
    /\ play_last' = None
    /\ UNCHANGED <<play_pc, play_away, play_count, play_start_ab, play_start_outs,
                   play_reached,
                   play_tally, earlyVars, rotVars, staffVars, tailVars>>

\* Loop iteration with half = End, game.rs:417-424
PlayEndTick ==
    /\ play_pc = "loop"
    /\ ~is_complete(play_inning, play_home, play_away)
    /\ play_inning.half = "End"
    /\ play_inning.number < MaxInning
    /\ play_away' = clear_onbase(play_away)
    /\ play_outs' = 0
    /\ play_virtual_outs' = 0
    /\ play_inning' = [number |-> play_inning.number + 1, half |-> "Top"]
    /\ play_log' = <<>>
    /\ play_last' = None
    /\ UNCHANGED <<play_pc, play_home, play_count, play_start_ab, play_start_outs,
                   play_reached,
                   play_tally, earlyVars, rotVars, staffVars, tailVars>>

\* The pitching Scoreboard and the events pushed by sub_pitcher,
\* game.rs:278-327 (the run totals followed stay far from the i8 range's ends)
play_after_sub(team, sb, bat_r, number) ==
    LET run_diff == wrap_i8(raw_run_diff(sb, bat_r))
        pool == sub_pool(team, sb, number, run_diff)
    IN  IF pool = {}
        THEN {[sb |-> sb, log |-> <<>>]}
        ELSE {[sb |-> change_pitcher(sb, bat_r, run_diff, new_pitcher),
               log |-> record_stat(<<>>, new_pitcher, "G", None)] :
                 new_pitcher \in pool}

\* The runners on the bases of a Scoreboard
runners_on(sb) == {Unwrap(sb.onbase[b]).runner : b \in {b \in 0..3 : sb.onbase[b] # None}}

\* The events of a log counted for a side: Br of its runners, Per and Pr of
\* the other side's pitchers, Po and Pso of its own pitchers
tally_of(tally, log, side) ==
    [br |-> tally.br + events_for(log, BattingOrder(side), {"Br"}),
     charged |-> tally.charged
                   + events_for(log, PlayRoster[other_side(side)], {"Per", "Pr"}),
     outs |-> tally.outs + events_for(log, PlayRoster[side], {"Po", "Pso"})]

\* The categories get_expected_pa is explored with, game.rs:440
play_draws ==
    IF play_count.home + play_count.away < MaxPA THEN ExpectDrawn ELSE {"Strikeout"}

\* Loop iteration with half = Top or Bottom, game.rs:425-573
PlayPlateAppearance ==
    /\ play_pc = "loop"
    /\ ~is_complete(play_inning, play_home, play_away)
    /\ play_inning.half \in {"Top", "Bottom"}
    /\ play_count.home + play_count.away < MaxPA + MaxTail
    /\ LET bat_side == play_bat_side
           pit_side == other_side(bat_side)
           bat0 == batting(play_inning, play_home, play_away)
           pit0 == pitching(play_inning, play_home, play_away)
           earned == earned_at(play_virtual_outs)
       IN  \E subbed \in play_after_sub(PlayRoster[pit_side], pit0, bat0.r,
                                        play_inning.number),
              expected \in play_draws, drawn \in PlayPitches :
           \E target \in determine_spray(expected) \cap PlayTargets,
              result \in {check_for_error(expected, fielder_errs) :
                             fielder_errs \in BOOLEAN} :
             LET pitcher_id == subbed.sb.pitcher
                 batter_id == bo_player(bat_side, bat0.ab)
                 fielder_id == player_at_pos(pit_side, subbed.sb, target)
             IN
             \E played \in {match_result(bat0, result, target, play_outs,
                               [runner |-> batter_id, pitcher |-> pitcher_id,
                                earned |-> earned])} :
             LET runs_in == played.sb.runs_in
                 log1 == fielder_events(subbed.log, fielder_id, result)
                 log2 == record_stat(log1, batter_id, Unwrap(to_batting_stat(result)),
                                     box_target(result, target))
                 log3 == rbi_events(log2, batter_id, result, runs_in)
                 log4 == pitching_event(log3, pitcher_id, result)
             IN
             \E log5 \in {run_events(log4, runs_in)} :
             LET bat1 == [record_runs(played.sb) EXCEPT !.ab = next_ab(@)]
                 pit1 == [subbed.sb EXCEPT
                             !.pitches = @ + pitches_thrown(result, drawn),
                             !.pitcher_outs = @ + played.add_outs]
                 new_outs == play_outs + played.add_outs
                 home1 == IF bat_side = "home" THEN bat1 ELSE pit1
                 away1 == IF bat_side = "away" THEN bat1 ELSE pit1
                 kept == runners_on(home1) \cup runners_on(away1)
                            \cup {runs_in[i].runner : i \in DOMAIN runs_in}
                            \cup {batter_id}
             IN  /\ play_home' = home1
                 /\ play_away' = away1
                 /\ play_log' = log5
                 /\ play_outs' = new_outs
                 /\ play_virtual_outs' = play_virtual_outs + played.add_outs
                                           + (IF result = "Error" THEN 1 ELSE 0)
                 /\ play_inning' = [play_inning EXCEPT !.half = next_half(@, new_outs)]
                 /\ play_last' = Some([result |-> result, target |-> target,
                                       side |-> bat_side, batter |-> batter_id,
                                       pitcher |-> pitcher_id, fielder |-> fielder_id,
                                       before |-> bat0, outs |-> play_outs,
                                       virtual_outs |-> play_virtual_outs])
                 /\ play_count' = [play_count EXCEPT ![bat_side] = @ + 1]
                 /\ play_reached' =
                       [p \in kept |->
                           IF p = batter_id
                           THEN [pitcher |-> pitcher_id,
                                 virtual_outs |-> play_virtual_outs,
                                 result |-> result]
                           ELSE play_reached[p]]
                 /\ play_tally' = [side \in {"home", "away"} |->
                                      tally_of(play_tally[side], log5, side)]
    /\ UNCHANGED <<play_pc, play_start_ab, play_start_outs, earlyVars, rotVars,
                   staffVars, tailVars>>

\* The loop condition fails, game.rs:409
PlayFinish ==
    /\ play_pc = "loop"
    /\ is_complete(play_inning, play_home, play_away)
    /\ play_pc' = "done"
    /\ UNCHANGED <<play_inning, play_outs, play_virtual_outs, play_home, play_away,
                   play_log, play_last, play_count, play_start_ab, play_start_outs,
                   play_reached,
                   play_tally, earlyVars, rotVars, staffVars, tailVars>>

PlayNext == PlayMiddleTick \/ PlayEndTick \/ PlayPlateAppearance \/ PlayFinish

-----------------------------------------------------------------------------
(* The seasons of a player's stat stream, player.rs:706-728: the events of   *)
(* the current season and the snapshots record_stat_history archives, read  *)
(* back by HistoricalStats::get_stats, stat.rs:405-448.                      *)

\* The seasons archived for a player.
MaxSeasons == 2

\* The events a player's season is explored with
ArchivedStats == {"G", "Gs", "B1b", "Bbb", "Bso", "Bo", "Pso", "Per"}

\* The key HistoricalStats::get_stats reads for each counter, stat.rs:407-442
CounterKey ==
    [g |-> "G", gs |-> "Gs", b_1b |-> "B1b", b_2b |-> "B2b", b_3b |-> "B3b",
     b_hr |-> "Bhr", b_bb |-> "Bbb", b_ibb |-> "Bibb", b_hbp |-> "Bhbp",
     b_so |-> "Bso", b_o |-> "Bo", b_gidp |-> "Bgidp", b_sb |-> "Bsb",
     b_cs |-> "Bcs", b_r |-> "Br", b_rbi |-> "Brbi", p_1b |-> "P1b",
     p_2b |-> "P2b", p_3b |-> "P3b", p_hr |-> "Phr", p_bb |-> "Pbb",
     p_ibb |-> "Pibb", p_hbp |-> "Phbp", p_so |-> "Pso", p_o |-> "Po",
     p_r |-> "Pr", p_er |-> "Per", p_w |-> "Pw", p_l |-> "Pl", p_sv |-> "Psv",
     p_bs |-> "Pbs", p_hld |-> "Phld", p_cg |-> "Pcg", p_sho |-> "Psho",
     f_po |-> "Fpo", f_e |-> "Fe"]

\* The loop `*historical.stats.entry(*stat).or_insert(0) += 1` over the
\* stream, player.rs:721-724: the HashMap from the stats seen to their counts
historical_stats(stream) ==
    [stat \in {stream[i] : i \in DOMAIN stream} |->
        Cardinality({i \in DOMAIN stream : stream[i] = stat})]

\* `*self.stats.get(&stat).unwrap_or(&0)`, stat.rs:407
stat_or_0(stats, stat) == IF stat \in DOMAIN stats THEN stats[stat] ELSE 0

\* HistoricalStats::get_stats, stat.rs:405-447
historical_get_stats(hist) ==
    calculate([f \in StatCounters |-> stat_or_0(hist.stats, CounterKey[f])])

\* The counts of a snapshot added up over a set of its keys
RECURSIVE sum_counts(_, _)
sum_counts(stats, keys) ==
    IF keys = {} THEN 0
    ELSE LET k == CHOOSE key \in keys : TRUE
         IN  stats[k] + sum_counts(stats, keys \ {k})

\* The events archived for a player
RECURSIVE archived_events(_)
archived_events(historical) ==
    IF historical = <<>> THEN 0
    ELSE sum_counts(Head(historical).stats, DOMAIN Head(historical).stats)
            + archived_events(Tail(historical))

\* The part while another part runs
ArchIdle ==
    /\ arch_pc = "idle"
    /\ arch_stream = <<>>
    /\ arch_historical = <<>>
    /\ arch_compiled = None

\* Player::new, player.rs:691-694
ArchStart ==
    /\ arch_pc = "season"
    /\ arch_stream = <<>>
    /\ arch_historical = <<>>
    /\ arch_compiled = None

\* Player::record_stat, player.rs:710-712
ArchRecordStat ==
    /\ arch_pc \in {"season", "archived"}
    /\ Len(arch_stream) + archived_events(arch_historical) < MaxStream
    /\ \E stat \in ArchivedStats : arch_stream' = Append(arch_stream, stat)
    /\ arch_pc' = "season"
    /\ UNCHANGED <<arch_historical, arch_compiled, earlyVars, midVars, archRest>>

\* Player::record_stat_history, player.rs:714-728, with the Stats that
\* compile_stats returns for the stream right before
RecordStatHistory ==
    /\ arch_pc \in {"season", "archived"}
    /\ Len(arch_historical) < MaxSeasons
    /\ arch_compiled' = Some(compile_stats(arch_stream))
    /\ arch_historical' = Append(arch_historical,
                                 [year |-> Len(arch_historical) + 1,
                                  stats |-> historical_stats(arch_stream)])
    /\ arch_stream' = <<>>
    /\ arch_pc' = "archived"
    /\ UNCHANGED <<earlyVars, midVars, archRest>>

ArchNext == ArchRecordStat \/ RecordStatHistory

-----------------------------------------------------------------------------
(* Game::setup_bo, game.rs:185-218 *)

MaxLineups == 5

\* Position::is_pitcher, player.rs:60-68
is_pitcher(pos) ==
    pos \in {"StartingPitcher", "LongRelief", "ShortRelief", "Setup", "Closer"}

\* `[DefenseInfo; 9]` of Scoreboard::default, game.rs:35-38 and player.rs:34-38
default_bo == [i \in 1..9 |-> [player |-> 0, pos |-> "StartingPitcher"]]

\* Player::fatigue_threshold, player.rs:788-792
fatigue_threshold(age) ==
    LET age_factor == (50 - (IF age < 49 THEN age ELSE 49)) * 2
    IN  age_factor * age_factor

\* `reverse`, game.rs:189
reverse(list) == [i \in 1..Len(list) |-> list[Len(list) + 1 - i]]

\* The non-pitchers of the team, best b_obp first, game.rs:187-189
team_players(team, players) ==
    LET batters == SelectSeq(team, LAMBDA id : ~is_pitcher(players[id].pos))
    IN  reverse(sort_by_key(batters, [id \in DOMAIN players |-> players[id].b_obp]))

\* The first loop of setup_bo, game.rs:191-200
RECURSIVE fill_bo(_, _, _, _)
fill_bo(bo, batters, index, players) ==
    IF batters = <<>> THEN bo
    ELSE LET id == Head(batters)
             pos == players[id].pos
         IN  IF \E i \in DOMAIN bo : bo[i].pos = pos
             THEN fill_bo(bo, Tail(batters), index, players)
             ELSE fill_bo([bo EXCEPT ![index + 1] = [player |-> id, pos |-> pos]],
                          Tail(batters), index + 1, players)

\* the first teammate other than the starter
find_replacement_any(batters, starter, players) ==
    LET hits == {i \in DOMAIN batters : batters[i] # starter.player}
    IN  IF hits = {} THEN None
        ELSE Some(batters[CHOOSE i \in hits : \A j \in hits : i <= j])

\* `team_players.iter().find(..)`, game.rs:203
find_replacement(batters, starter, players) ==
    LET hits == {i \in DOMAIN batters :
                    /\ batters[i] # starter.player
                    /\ players[batters[i]].pos = starter.pos}
    IN  IF hits = {} THEN None
        ELSE Some(batters[CHOOSE i \in hits : \A j \in hits : i <= j])

\* What `rng.gen_bool(fat_pct.min(1.0))` can return for fat_pct =
\* fatigue / threshold, game.rs:205-206
gen_bool(fatigue, threshold) ==
    IF fatigue = 0 THEN {FALSE}
    ELSE IF fatigue >= threshold THEN {TRUE}
    ELSE BOOLEAN

\* What the second loop may decide for a starter, game.rs:202-210
swap_draws(batters, starter, players) ==
    IF find_replacement(batters, starter, players) = None THEN {FALSE}
    ELSE gen_bool(players[starter.player].fatigue,
                  fatigue_threshold(players[starter.player].age))

\* The second loop of setup_bo under the draws, game.rs:202-210
swap_starters(bo, batters, players, draws) ==
    [i \in DOMAIN bo |->
        IF draws[i]
        THEN [bo[i] EXCEPT !.player = Unwrap(find_replacement(batters, bo[i], players))]
        ELSE bo[i]]

\* The third loop of setup_bo, game.rs:212-217; fatigue is a u16
tire_starters(bo, players) ==
    [id \in DOMAIN players |->
        IF \E i \in DOMAIN bo : bo[i].player = id
        THEN [players[id] EXCEPT !.fatigue = (@ + 1) % 65536]
        ELSE players[id]]

\* The Gs events of the third loop, game.rs:213
starts_logged(bo) ==
    [i \in DOMAIN bo |-> [player |-> bo[i].player, event |-> "Gs", target |-> None]]

\* A team of twelve: one player at each of the nine positions of the batting
\* order, a second catcher, a second first baseman and a starting pitcher
LineupRoster(obp10, obp11, age1) ==
    [id \in 1..12 |->
        [pos |-> IF id <= 9 THEN LineupPos[id]
                 ELSE IF id = 10 THEN "Catcher"
                 ELSE IF id = 11 THEN "FirstBase" ELSE "StartingPitcher",
         b_obp |-> IF id = 10 THEN obp10 ELSE IF id = 11 THEN obp11 ELSE 300 + id,
         age |-> IF id = 1 THEN age1 ELSE 25,
         fatigue |-> 0]]

\* The part while another part runs
LineupIdle ==
    /\ lineup_pc = "idle"
    /\ lineup_team = <<>>
    /\ lineup_players = <<>>
    /\ lineup_bo = <<>>
    /\ lineup_boxscore = <<>>
    /\ lineup_games = 0

\* A populated team at the start of a season, team.rs:157-174, league.rs:160
LineupStart ==
    /\ lineup_pc = "ready"
    /\ lineup_team \in {[i \in 1..12 |-> i], [i \in 1..12 |-> 13 - i]}
    /\ \E obp10 \in {250, 301, 350}, obp11 \in {250, 302, 350}, age1 \in {25, 49, 60} :
          lineup_players = LineupRoster(obp10, obp11, age1)
    /\ lineup_bo = default_bo
    /\ lineup_boxscore = <<>>
    /\ lineup_games = 0

\* Game::setup_bo for the side of a new Game, game.rs:185-218
SetupBo ==
    /\ lineup_pc \in {"ready", "set"}
    /\ lineup_games < MaxLineups
    /\ \E batters \in {team_players(lineup_team, lineup_players)} :
       \E filled \in {fill_bo(default_bo, batters, 0, lineup_players)} :
       \E draws \in [DOMAIN filled -> BOOLEAN] :
          /\ \A i \in DOMAIN filled :
                draws[i] \in swap_draws(batters, filled[i], lineup_players)
          /\ LET bo == swap_starters(filled, batters, lineup_players, draws)
             IN  /\ lineup_bo' = bo
                 /\ lineup_players' = tire_starters(bo, lineup_players)
                 /\ lineup_boxscore' = starts_logged(bo)
    /\ lineup_pc' = "set"
    /\ lineup_games' = lineup_games + 1
    /\ UNCHANGED <<lineup_team, earlyVars, midVars, lineupRest>>

LineupNext == SetupBo

-----------------------------------------------------------------------------
(* Relegation and promotion in end_of_season, league.rs:134-151 *)

MaxYears == 2

\* the exchange with the first teams of the upper league going down
exchange_top(leagues, upper, count) ==
    LET lower == upper + 1
        up == leagues[upper]
        low == leagues[lower]
        relegated == SubSeq(up, 1, count)
        promoted == SubSeq(low, 1, count)
    IN  [leagues EXCEPT
            ![upper] = SubSeq(up, count + 1, Len(up)) \o promoted,
            ![lower] = reverse(relegated) \o SubSeq(low, count + 1, Len(low))]

\* One pass of the loop, league.rs:135-150: `split_off(len - count)`, `count`
\* times `remove(0)`, `append`, and `insert(0, rel)` for each relegated team
exchange(leagues, upper, count) ==
    LET lower == upper + 1
        up == leagues[upper]
        low == leagues[lower]
        relegated == SubSeq(up, Len(up) - count + 1, Len(up))
        promoted == SubSeq(low, 1, count)
    IN  [leagues EXCEPT
            ![upper] = SubSeq(up, 1, Len(up) - count) \o promoted,
            ![lower] = reverse(relegated) \o SubSeq(low, count + 1, Len(low))]

\* `for league_idx in 0..(leagues.len() - 1)`, league.rs:135
RECURSIVE relegate_promote(_, _, _)
relegate_promote(leagues, upper, count) ==
    IF upper >= Len(leagues) THEN leagues
    ELSE relegate_promote(exchange(leagues, upper, count), upper + 1, count)

\* The leagues of a game and the count they are run with: every league has
\* at least 2 * count teams
RelLeagues ==
    {<<<<<<1, 2>>, <<3, 4>>, <<5, 6>>>>, 1>>,
     <<<<<<1, 2, 3>>, <<4, 5>>>>, 1>>,
     <<<<<<1, 2, 3, 4>>, <<5, 6, 7, 8>>, <<9, 10, 11, 12>>>>, 2>>,
     <<<<<<1, 2, 3, 4, 5>>, <<6, 7, 8, 9>>>>, 2>>,
     <<<<<<1, 2, 3>>>>, 1>>}

\* Orders the losses of a season can put the teams of a league in
final_orders(list) == {list, reverse(list), rotate_left(list, 1)}

\* The part while another part runs
RelIdle ==
    /\ rel_pc = "idle"
    /\ rel_leagues = <<>>
    /\ rel_count = 0
    /\ rel_year = 0

\* The leagues at the start of a season
RelStart ==
    /\ rel_pc = "season"
    /\ \E start \in RelLeagues : rel_leagues = start[1] /\ rel_count = start[2]
    /\ rel_year = 0

\* The last call of League::sim of every league, league.rs:69: the teams are
\* put in the order of their losses, which the season's results decide
RelSeasonOver ==
    /\ rel_pc = "season"
    /\ rel_year < MaxYears
    /\ \E sorted \in [DOMAIN rel_leagues ->
                         UNION {final_orders(rel_leagues[i]) : i \in DOMAIN rel_leagues}] :
          /\ \A i \in DOMAIN rel_leagues : sorted[i] \in final_orders(rel_leagues[i])
          /\ rel_leagues' = sorted
    /\ rel_pc' = "sorted"
    /\ UNCHANGED <<rel_count, rel_year, earlyVars, midVars, relRest>>

\* end_of_season, league.rs:134-151
EndOfSeason ==
    /\ rel_pc = "sorted"
    /\ rel_leagues' = relegate_promote(rel_leagues, 1, rel_count)
    /\ rel_year' = rel_year + 1
    /\ rel_pc' = "season"
    /\ UNCHANGED <<rel_count, earlyVars, midVars, relRest>>

RelNext == RelSeasonOver \/ EndOfSeason

-----------------------------------------------------------------------------
(* check_record, league.rs:95-118 *)

MaxChecks == 3

\* RECORD_STATS, league.rs:75-93
RECORD_STATS ==
    <<"Bhr", "Br", "Brbi", "Bso", "Bh", "B2b", "B3b", "Bbb", "Bsb", "Bavg",
      "Bobp", "Bslg", "Pw", "Psv", "Pso", "Pwhip", "Pera">>

\* The stats check_record reads: the record stats and the two the
\* qualification is measured in
RecordKeys == {RECORD_STATS[i] : i \in DOMAIN RECORD_STATS} \cup {"Bpa", "Po"}

\* Stat::is_reverse_sort, stat.rs:86-88
is_reverse_sort(stat) == stat \in {"Pavg", "Pobp", "Pslg", "Pera", "Pwhip"}

\* The `qual` of Stat::is_qualified, stat.rs:91-100
qualifier(stat) ==
    IF stat \in {"Bavg", "Bobp", "Bslg"} THEN Some(<<"Bpa", 31>>)
    ELSE IF stat \in {"Pobp", "Pslg", "Pera", "Pwhip"} THEN Some(<<"Po", 30>>)
    ELSE None

\* Stat::is_qualified, stat.rs:90-109; get_stat(qstat) is player_stats[qstat]
is_qualified(stat, player_stats, team_games) ==
    IF qualifier(stat) = None THEN TRUE
    ELSE LET qstat == Unwrap(qualifier(stat))[1]
             factor == Unwrap(qualifier(stat))[2]
         IN  ~(player_stats[qstat] < (team_games * factor) \div 10)

\* The two `continue` of the loop, league.rs:100-110: whether the record of
\* the stat stays as it is
keeps_record(record, stat, player_stats, team_games) ==
    /\ record # None
    /\ \/ is_reverse_sort(stat) /\ Unwrap(record).record <= player_stats[stat]
       \/ ~is_reverse_sort(stat) /\ Unwrap(record).record >= player_stats[stat]
       \/ ~is_qualified(stat, player_stats, team_games)

\* check_record, league.rs:95-118; a stat without an entry is entered as None
check_record(records, player_stats, player_id, team_games) ==
    [stat \in DOMAIN records |->
        IF keeps_record(records[stat], stat, player_stats, team_games)
        THEN records[stat]
        ELSE Some([record |-> player_stats[stat], player_id |-> player_id])]

\* What get_stat gives for a season of the stats named and 0 elsewhere
season_stats(bhr, bavg, bpa, pera, po) ==
    [stat \in RecordKeys |->
        CASE stat = "Bhr" -> bhr
          [] stat = "Bavg" -> bavg
          [] stat = "Bpa" -> bpa
          [] stat = "Pera" -> pera
          [] stat = "Po" -> po
          [] OTHER -> 0]

\* The games of the teams of the players, team.rs:19-21: a league of two
GamesPlayed == 8

\* Seasons of six players: a pinch hitter with one hit in one plate
\* appearance, two regulars, two starting pitchers and a reliever
PlayerSeasons ==
    [pinch   |-> season_stats(0, 1000, 1, 0, 0),
     regular |-> season_stats(1, 300, 30, 0, 0),
     slugger |-> season_stats(2, 350, 30, 0, 0),
     ace     |-> season_stats(0, 0, 0, 2000, 60),
     starter |-> season_stats(0, 0, 0, 4000, 60),
     closer  |-> season_stats(0, 0, 0, 1000, 9)]

\* The part while another part runs
RecIdle ==
    /\ rec_pc = "idle"
    /\ rec_records = <<>>
    /\ rec_seen = {}
    /\ rec_calls = 0

\* League::default, league.rs:19-27, with every stat's entry not yet set
RecStart ==
    /\ rec_pc = "open"
    /\ rec_records = [stat \in {RECORD_STATS[i] : i \in DOMAIN RECORD_STATS} |-> None]
    /\ rec_seen = {}
    /\ rec_calls = 0

\* A call of check_record from end_of_season, league.rs:128
CheckRecord ==
    /\ rec_pc = "open"
    /\ rec_calls < MaxChecks
    /\ \E player_id \in DOMAIN PlayerSeasons :
          /\ rec_records' = check_record(rec_records, PlayerSeasons[player_id],
                                         player_id, GamesPlayed)
          /\ rec_seen' = rec_seen \cup {player_id}
    /\ rec_calls' = rec_calls + 1
    /\ UNCHANGED <<rec_pc, earlyVars, midVars, recRest>>

RecNext == CheckRecord

\* The rotation, staff and loop parts, while another part runs
MidIdle == RotIdle /\ StaffIdle /\ PlayIdle

\* The parts added after the loop part, while another part runs
TailIdle == ArchIdle /\ LineupIdle /\ RelIdle /\ RecIdle

\* The parts added after the weighted draws, while another part runs
LateIdle == MidIdle /\ TailIdle

\* The parts before them, while another part runs
EarlyIdle ==
    /\ GameIdle /\ SchedIdle /\ LeagueIdle /\ WlsIdle /\ StatIdle
    /\ BasesIdle /\ SubIdle /\ EndIdle /\ DrawIdle

\* The parts added after the stat stream, while another part runs
MoreIdle == BasesIdle /\ SubIdle /\ EndIdle /\ DrawIdle /\ LateIdle

-----------------------------------------------------------------------------
(* Specifications *)

GameInit == GameStart /\ SchedIdle /\ LeagueIdle /\ WlsIdle /\ StatIdle /\ MoreIdle
SpecGame == GameInit /\ [][GameNext]_vars

SchedInit == SchedStart /\ GameIdle /\ LeagueIdle /\ WlsIdle /\ StatIdle /\ MoreIdle
SpecSched == SchedInit /\ [][SchedNext]_vars

\* A round whose shuffle leaves last, so popped first, a team that still has a
\* home fixture to play: every opponent is then still in the working list.
ProductiveShuffle ==
    /\ StartRound
    /\ \E i \in 1..Len(raw_matchups) :
           raw_matchups[i].home = teams_to_pick'[Len(teams_to_pick')]

\* The loops of Schedule::new run on without pause, and a shuffle outcome that
\* stays possible round after round eventually comes up.
SchedFairness ==
    /\ WF_vars(PopAndMatch)
    /\ WF_vars(PopNoMatch)
    /\ WF_vars(Expand)
    /\ SF_vars(ProductiveShuffle)

SpecSchedFair == SchedInit /\ [][SchedNext]_vars /\ SchedFairness

LeagueInit == LeagueStart /\ GameIdle /\ SchedIdle /\ WlsIdle /\ StatIdle /\ MoreIdle
SpecLeague == LeagueInit /\ [][LeagueNext]_vars

WlsInit == WlsStart /\ GameIdle /\ SchedIdle /\ LeagueIdle /\ StatIdle /\ MoreIdle
SpecWls == WlsInit /\ [][WlsNext]_vars

StatInit == StatStart /\ GameIdle /\ SchedIdle /\ LeagueIdle /\ WlsIdle /\ MoreIdle
SpecStats == StatInit /\ [][StatNext]_vars

BasesInit == BasesStart /\ GameIdle /\ SchedIdle /\ LeagueIdle /\ WlsIdle /\ StatIdle
                /\ SubIdle /\ EndIdle /\ DrawIdle /\ LateIdle
SpecBases == BasesInit /\ [][BasesNext]_vars

SubInit == SubStart /\ GameIdle /\ SchedIdle /\ LeagueIdle /\ WlsIdle /\ StatIdle
              /\ BasesIdle /\ EndIdle /\ DrawIdle /\ LateIdle
SpecSub == SubInit /\ [][SubNext]_vars

EndInit == EndStart /\ GameIdle /\ SchedIdle /\ LeagueIdle /\ WlsIdle /\ StatIdle
              /\ BasesIdle /\ SubIdle /\ DrawIdle /\ LateIdle
SpecEnd == EndInit /\ [][EndNext]_vars

DrawInit == DrawStart /\ GameIdle /\ SchedIdle /\ LeagueIdle /\ WlsIdle /\ StatIdle
               /\ BasesIdle /\ SubIdle /\ EndIdle /\ LateIdle
SpecDraw == DrawInit /\ [][DrawNext]_vars

RotInit == RotStart /\ EarlyIdle /\ StaffIdle /\ PlayIdle /\ TailIdle
SpecRotation == RotInit /\ [][RotNext]_vars

StaffInit == StaffStart /\ EarlyIdle /\ RotIdle /\ PlayIdle /\ TailIdle
SpecStaff == StaffInit /\ [][StaffNext]_vars

PlayInit == PlayStart /\ EarlyIdle /\ RotIdle /\ StaffIdle /\ TailIdle
SpecPlay == PlayInit /\ [][PlayNext]_vars

LineupInit == LineupStart /\ EarlyIdle /\ MidIdle /\ ArchIdle /\ RelIdle /\ RecIdle
SpecLineup == LineupInit /\ [][LineupNext]_vars

RelInit == RelStart /\ EarlyIdle /\ MidIdle /\ ArchIdle /\ LineupIdle /\ RecIdle
SpecRelegation == RelInit /\ [][RelNext]_vars

RecInit == RecStart /\ EarlyIdle /\ MidIdle /\ ArchIdle /\ LineupIdle /\ RelIdle
SpecRecords == RecInit /\ [][RecNext]_vars

ArchInit == ArchStart /\ EarlyIdle /\ MidIdle /\ LineupIdle /\ RelIdle /\ RecIdle
SpecArchive == ArchInit /\ [][ArchNext]_vars

-----------------------------------------------------------------------------
(* Properties of Schedule::new *)

\* The teams of a fixture
teams_of(g) == {g.home, g.away}

\* The 1-based indices of day-group k of a fixture list cut in groups of width
day_group(k, width) == (k * width + 1)..((k + 1) * width)

\* The day-group the fixture at the 1-based index i falls in
day_of(i, width) == (i - 1) \div width

\* C3: for every list of N distinct team ids and every outcome of the shuffles,
\* Schedule::new does not fail and returns exactly N*(N-1)*4 games.
C3_ExactlyFourTimesThePairs ==
    /\ spc # "panic"
    /\ spc = "done" => Len(games) = Len(teams) * (Len(teams) - 1) * 4

\* C4: in the returned list no team appears in two games of the same
\* day-group of N/2 games.
C4_NoTeamTwiceInADayGroup ==
    spc = "done" =>
        \A k \in 0..((Len(games) \div half_count(teams)) - 1) :
            \A i, j \in day_group(k, half_count(teams)) :
                i < j => teams_of(games[i]) \cap teams_of(games[j]) = {}

\* C5: in the returned list every ordered (home, away) pair of distinct teams
\* appears exactly 4 times, in 4 consecutive day-groups.
C5_EveryPairOneSeries ==
    spc = "done" =>
        \A a, b \in 1..Len(teams) :
            a # b =>
                LET at == {i \in 1..Len(games) : games[i] = NewGame(teams[a], teams[b])}
                    days == {day_of(i, half_count(teams)) : i \in at}
                IN  /\ Cardinality(at) = 4
                    /\ \E d \in days : days = d..(d + 3)

\* C5 witness: a schedule of four teams has been returned
C5_Witness == spc = "done" /\ Len(teams) = 4 /\ Len(games) = 48

\* C6: Schedule::new always leaves its loops: from every state of the round
\* construction with unconsumed pairs all pairs are eventually consumed, and
\* the function eventually stops.
C6_RoundsTerminate ==
    /\ (raw_matchups # <<>>) ~> (raw_matchups = <<>>)
    /\ <>(spc \in {"done", "panic"})

\* C6 witness: the round loop is left with all twelve pairs of four teams used
C6_Witness == spc = "rounds" /\ raw_matchups = <<>> /\ Len(matchups) = 12

-----------------------------------------------------------------------------
(* Properties of Game::sim *)

\* C1: when the loop of Game::sim has exited, the inning is at least 9, the
\* score is not tied, and either the home side leads and the half is not Top
\* or the away side leads and the half is End.
C1_TerminalState ==
    gpc = "done" =>
        /\ inning.number >= 9
        /\ home.r # away.r
        /\ \/ home.r > away.r /\ inning.half # "Top"
           \/ away.r > home.r /\ inning.half = "End"

\* C1 witness: a game won by the away side has completed
C1_Witness == gpc = "done" /\ away.r > home.r /\ inning.half = "End"

\* C2: the real out count stays within 0..3 and never exceeds the virtual out
\* count; a half ends (Top to Middle, Bottom to End) only with exactly 3 outs;
\* both counts are 0 when a half-inning begins.
C2_OutCounters ==
    /\ outs = 0 /\ virtual_outs = 0
    /\ [](outs \in 0..3 /\ virtual_outs >= outs)
    /\ [][(\/ inning.half = "Top" /\ inning'.half = "Middle"
           \/ inning.half = "Bottom" /\ inning'.half = "End") => outs' = 3]_vars
    /\ [][(inning'.half # inning.half /\ inning'.half \in {"Top", "Bottom"})
            => (outs' = 0 /\ virtual_outs' = 0)]_vars

\* C2 witness: a top half has ended on its third out after a fielding error
C2_Witness == inning.half = "Middle" /\ outs = 3 /\ virtual_outs > 3


\* C16: from inning 9 on nothing more is played once the home side leads
\* outside the top half (the bottom half is not started when the home side
\* leads after the top half, and the plate appearance that puts the home side
\* ahead in a bottom half is the last one), nor after an End state in which
\* the away side leads: the inning, the out counters and both scoreboards
\* stay as they are.
C16_NoPlayAfterDecision ==
    [][(/\ gpc = "loop"
        /\ inning.number >= 9
        /\ \/ inning.half # "Top" /\ home.r > away.r
           \/ inning.half = "End" /\ away.r > home.r)
       => UNCHANGED <<inning, outs, virtual_outs, home, away>>]_vars

C16_Witness ==
    /\ gpc = "done"
    /\ inning.number = 9
    /\ inning.half = "Bottom"
    /\ outs < 3
    /\ home.r > away.r

-----------------------------------------------------------------------------
(* Properties of League::sim *)

\* The 0-based indices 0 .. n-1 in ascending order
first_indices(n) == [i \in 1..n |-> i - 1]

\* C7: a call of League::sim with cur_idx below the number of scheduled games
\* simulates exactly the games at cur_idx .. cur_idx + N/2 - 1 that exist,
\* advances cur_idx by N/2 and returns true; a call at or past the end
\* simulates no game and returns false; so the games simulated so far are
\* always the first cur_idx ones, each once and in schedule order, and when
\* false is returned every scheduled game has been simulated exactly once.
C7_DayByDay ==
    /\ [][LET half == Len(league_teams) \div 2
              today == {i \in cur_idx..(cur_idx + half - 1) : i < Len(league_games)}
          IN  IF cur_idx < Len(league_games)
              THEN /\ sim_ret' = Some(TRUE)
                   /\ cur_idx' = cur_idx + half
                   /\ Len(league_games') = Len(league_games)
                   /\ \A i \in 0..(Len(league_games) - 1) :
                         league_games'[i + 1].played =
                            league_games[i + 1].played + (IF i \in today THEN 1 ELSE 0)
                   /\ Len(sim_calls') = Len(sim_calls) + Cardinality(today)
                   /\ \A k \in 1..Cardinality(today) :
                         sim_calls'[Len(sim_calls) + k] = cur_idx + k - 1
              ELSE /\ sim_ret' = Some(FALSE)
                   /\ UNCHANGED <<league_games, sim_calls, cur_idx, team_results>>]_vars
    /\ [](sim_calls = first_indices(Len(sim_calls)))
    /\ [](sim_ret = Some(FALSE) =>
             /\ sim_calls = first_indices(Len(league_games))
             /\ \A i \in DOMAIN league_games : league_games[i].played = 1)

C7_Witness ==
    /\ sim_ret = Some(FALSE)
    /\ Len(league_teams) = 4
    /\ sim_calls = first_indices(48)

-----------------------------------------------------------------------------
(* Properties of Game::record_wls *)

\* The positions of the log that hold the event
events_of(log, event) == {i \in DOMAIN log : log[i].event = event}

\* The players the log credits with the event
credited(log, event) == {log[i].player : i \in events_of(log, event)}

\* C8: a Save is logged, once and for the side's final pitcher, exactly when
\* the side has a Win recipient, the final pitcher is not that recipient, and
\* the final pitcher entered with a lead of at most 3 runs or recorded at
\* least 9 outs; with three stints that all ended ahead the Win goes to the
\* first pitcher and the third gets the Save under that same entry condition.
C8_SaveRule ==
    wls_pc = "done" =>
        LET last_pr == pitcher_record[Len(pitcher_record)]
            winners == credited(boxscore, "Pw")
            savers  == credited(boxscore, "Psv")
            entry_ok == last_pr.run_diff_in <= 3 \/ last_pr.outs >= 9
        IN  /\ Cardinality(events_of(boxscore, "Psv")) <= 1
            /\ savers \subseteq {last_pr.pitcher}
            /\ (savers # {}) <=>
                  (winners # {} /\ last_pr.pitcher \notin winners /\ entry_ok)
            /\ (Len(pitcher_record) = 3
                   /\ \A k \in 1..3 : pitcher_record[k].run_diff_out > 0) =>
                  /\ winners = {pitcher_record[1].pitcher}
                  /\ (savers = {pitcher_record[3].pitcher}) <=> entry_ok

C8_Witness ==
    /\ wls_pc = "done"
    /\ Len(pitcher_record) = 3
    /\ \A k \in 1..3 : pitcher_record[k].run_diff_out > 0
    /\ pitcher_record[3].run_diff_in = 4
    /\ pitcher_record[3].outs = 9
    /\ credited(boxscore, "Psv") = {pitcher_record[3].pitcher}

\* The stints from which on every stint ended ahead
lead_run(pr) == {i \in DOMAIN pr : \A j \in i..Len(pr) : pr[j].run_diff_out > 0}

\* The stints from which on every stint ended behind
deficit_run(pr) == {i \in DOMAIN pr : \A j \in i..Len(pr) : pr[j].run_diff_out < 0}

\* The earliest stint of a non-empty run
earliest(run) == CHOOSE i \in run : \A j \in run : i <= j

\* C9: the Win is logged once, for the pitcher of the earliest stint of the
\* maximal trailing run of stints that ended ahead, and not at all when the
\* final stint did not end ahead; the Loss likewise for stints that ended
\* behind.
C9_WinLossCredit ==
    wls_pc = "done" =>
        /\ IF lead_run(pitcher_record) = {}
           THEN events_of(boxscore, "Pw") = {}
           ELSE /\ Cardinality(events_of(boxscore, "Pw")) = 1
                /\ credited(boxscore, "Pw") =
                      {pitcher_record[earliest(lead_run(pitcher_record))].pitcher}
        /\ IF deficit_run(pitcher_record) = {}
           THEN events_of(boxscore, "Pl") = {}
           ELSE /\ Cardinality(events_of(boxscore, "Pl")) = 1
                /\ credited(boxscore, "Pl") =
                      {pitcher_record[earliest(deficit_run(pitcher_record))].pitcher}

C9_Witness ==
    /\ wls_pc = "done"
    /\ Len(pitcher_record) = 3
    /\ pitcher_record[1].run_diff_out = 0
    /\ pitcher_record[2].run_diff_out > 0
    /\ pitcher_record[3].run_diff_out > 0
    /\ credited(boxscore, "Pw") = {pitcher_record[2].pitcher}

\* The stints of the side pitched by the player
stints_of(pr, player) == {i \in DOMAIN pr : pr[i].pitcher = player}

\* C18: every Hold goes to a pitcher whose stint lies strictly between the
\* stint of the Win recipient and the final stint of the side: never to a
\* pitcher from before the Win recipient, to the Win recipient, or to the
\* final pitcher.
C18_HoldsBetweenWinAndFinal ==
    wls_pc = "done" =>
        \A h \in credited(boxscore, "Phld") :
            \E w \in credited(boxscore, "Pw") :
                \A i \in stints_of(pitcher_record, h) :
                    \A j \in stints_of(pitcher_record, w) :
                        j < i /\ i < Len(pitcher_record)

-----------------------------------------------------------------------------
(* Properties of Stats::compile_stats *)

\* The number of occurrences of the stats in the stream
occurrences(stream, stats) == Cardinality({i \in DOMAIN stream : stream[i] \in stats})

\* The events that end a plate appearance
PlateAppearanceResults == {"B1b", "B2b", "B3b", "Bhr", "Bbb", "Bibb", "Bhbp",
                           "Bso", "Bo", "Bgidp"}

\* C10: for every stream, b_h is the number of singles, doubles, triples and
\* home runs; b_ab is b_h plus the outs, each of Bo, Bso and Bgidp counted
\* once; b_pa is b_ab plus the walks plus the hit-by-pitches, which is the
\* number of plate-appearance result events of the stream.
C10_BattingTotals ==
    LET st == compile_stats(stat_stream)
    IN  /\ st.b_h = occurrences(stat_stream, {"B1b", "B2b", "B3b", "Bhr"})
        /\ st.b_ab = st.b_h + occurrences(stat_stream, {"Bo"})
                            + occurrences(stat_stream, {"Bso"})
                            + occurrences(stat_stream, {"Bgidp"})
        /\ st.b_pa = st.b_ab + occurrences(stat_stream, {"Bbb", "Bibb"})
                             + occurrences(stat_stream, {"Bhbp"})
        /\ st.b_pa = occurrences(stat_stream, PlateAppearanceResults)

C10_Witness ==
    /\ {"Bso", "Bibb", "B2b"} \subseteq {stat_stream[i] : i \in DOMAIN stat_stream}
    /\ compile_stats(stat_stream).b_pa = 3

-----------------------------------------------------------------------------
(* Properties of Scoreboard::advance_onbase and advance_batter *)

\* The runners of a Scoreboard from the most advanced to the least: the ones
\* in runs_in in the order they scored, then bases 3, 2, 1 and slot 0
lineup(sb) ==
    sb.runs_in \o sb.onbase[3] \o sb.onbase[2] \o sb.onbase[1] \o sb.onbase[0]

\* The number of occupied slots plus the length of runs_in
runner_count(sb) ==
    Cardinality({b \in 0..3 : sb.onbase[b] # None}) + Len(sb.runs_in)

\* C12: after advance_batter on a Scoreboard with an empty slot 0 and amt in
\* 1..4, slot 0 is empty, the batter stands on base amt (or is the last of
\* runs_in when amt = 4), the earlier runners keep their order ahead of the
\* batter, the number of runners has grown by exactly one, and with amt = 4
\* the bases are empty and every earlier runner has scored.
C12_AdvanceBatter ==
    (bases_pc = "done" /\ Unwrap(bases_call)[1] = "advance_batter") =>
        LET amt == Unwrap(bases_call)[2]
        IN  /\ bases_sb.onbase[0] = None
            /\ IF amt < 4
               THEN bases_sb.onbase[amt] = Some(Batter)
               ELSE /\ bases_sb.runs_in # <<>>
                    /\ bases_sb.runs_in[Len(bases_sb.runs_in)] = Batter
                    /\ \A b \in 0..3 : bases_sb.onbase[b] = None
            /\ lineup(bases_sb) = Append(lineup(bases_old), Batter)
            /\ runner_count(bases_sb) = runner_count(bases_old) + 1
            /\ bases_sb.r = bases_old.r

C12_Witness ==
    /\ bases_pc = "done"
    /\ bases_call = Some(<<"advance_batter", 2>>)
    /\ bases_old.onbase[1] # None
    /\ bases_old.onbase[3] # None
    /\ bases_old.onbase[2] = None
    /\ bases_sb.onbase[3] = bases_old.onbase[1]

\* The first slot at or after b that is empty, 4 when there is none
first_gap(sb, b) ==
    IF \E g \in b..3 : sb.onbase[g] = None
    THEN CHOOSE g \in b..3 : sb.onbase[g] = None /\ \A h \in b..(g - 1) : sb.onbase[h] # None
    ELSE 4

\* C13: advance_onbase(start) changes nothing when slot start is empty or
\* start > 3; otherwise the runners on start and on the occupied slots
\* directly ahead each move one base, a runner pushed off third is appended
\* to runs_in, slot start is left empty, the slots behind start and beyond
\* the first gap are untouched, and the number of runners is unchanged.
C13_AdvanceOnbase ==
    (bases_pc = "done" /\ Unwrap(bases_call)[1] = "advance_onbase") =>
        LET start == Unwrap(bases_call)[2]
        IN  IF start > 3 \/ bases_old.onbase[start] = None
            THEN bases_sb = bases_old
            ELSE LET gap == first_gap(bases_old, start)
                 IN  /\ bases_sb.onbase[start] = None
                     /\ \A b \in (start + 1)..3 :
                           b <= gap => bases_sb.onbase[b] = bases_old.onbase[b - 1]
                     /\ bases_sb.runs_in =
                           IF gap = 4
                           THEN Append(bases_old.runs_in, Unwrap(bases_old.onbase[3]))
                           ELSE bases_old.runs_in
                     /\ \A b \in 0..3 :
                           (b < start \/ b > gap) => bases_sb.onbase[b] = bases_old.onbase[b]
                     /\ runner_count(bases_sb) = runner_count(bases_old)
                     /\ bases_sb.r = bases_old.r

C13_Witness ==
    /\ bases_pc = "done"
    /\ bases_call = Some(<<"advance_onbase", 1>>)
    /\ \A b \in 0..3 : bases_old.onbase[b] # None
    /\ bases_sb.runs_in = Append(bases_old.runs_in, runner_on(3))
    /\ bases_sb.onbase[0] = bases_old.onbase[0]

-----------------------------------------------------------------------------
(* Properties of Game::sub_pitcher *)

\* The teammates of a role who have not pitched when sub_pitcher is called
unused(role) ==
    {p \in sub_team \ used_pitchers(sub_old) : PlayerPos[p] = role}

\* The run difference sub_pitcher works with
computed_run_diff == wrap_i8(raw_run_diff(sub_old, sub_bat_r))

\* The roles the call asks for: Setup or Closer by the late-inning rule, and,
\* when that brings nobody in, a reliever once the pitch count is over the
\* maximum of the incumbent
asked_roles ==
    LET cur == PlayerPos[sub_old.pitcher]
        late == IF computed_run_diff > 0 /\ computed_run_diff <= 3
                THEN IF sub_inning = 8 /\ cur # "Setup" THEN {"Setup"}
                     ELSE IF sub_inning >= 9 /\ cur # "Closer" THEN {"Closer"}
                     ELSE {}
                ELSE {}
        relief == IF sub_old.pitches > max_pitches_for_pos(cur)
                  THEN IF sub_inning < 7 THEN {"LongRelief"} ELSE {"ShortRelief"}
                  ELSE {}
    IN  late \cup relief

\* C15: when sub_pitcher finds no unused teammate of any role it asks for,
\* the pitching scoreboard (pitcher, pitches, pitcher_outs,
\* pitcher_run_diff_in, pitcher_record) is as it was and nothing is logged.
C15_IncumbentStays ==
    (sub_pc = "done" /\ \A role \in asked_roles : unused(role) = {})
        => (sub_pit = sub_old /\ sub_log = <<>>)

\* A call over the maximum in a save situation of inning 8 that finds neither
\* a Setup nor a ShortRelief teammate who has not pitched, the incumbent
\* being the team's ShortRelief, while other relievers sit unused
C15_Witness ==
    /\ sub_pc = "done"
    /\ asked_roles = {"Setup", "ShortRelief"}
    /\ sub_old.pitcher = "sr1"
    /\ unused("Setup") = {} /\ unused("ShortRelief") = {}
    /\ unused("Closer") # {} /\ unused("LongRelief") # {}
    /\ sub_pit = sub_old

\* The lead of the pitching team, from the two run totals
lead == sub_old.r - sub_bat_r

\* The call changed the pitcher
changed == sub_pit.pitcher # sub_old.pitcher

\* C19: with a lead of 1 to 3 runs, in inning 8 an unused Setup teammate (if
\* any) replaces a pitcher who is not a Setup reliever, and from inning 9 an
\* unused Closer teammate (if any) replaces a pitcher who is not the Closer;
\* no Setup or Closer comes in when the lead is 0, negative or above 3, or
\* before inning 8.
C19_LateInningRule ==
    sub_pc # "ready" =>
        LET cur == PlayerPos[sub_old.pitcher]
            new == PlayerPos[sub_pit.pitcher]
        IN  /\ (lead \in 1..3 /\ sub_inning = 8 /\ cur # "Setup" /\ unused("Setup") # {})
                   => (sub_pc = "done" /\ changed /\ new = "Setup")
            /\ (lead \in 1..3 /\ sub_inning >= 9 /\ cur # "Closer" /\ unused("Closer") # {})
                   => (sub_pc = "done" /\ changed /\ new = "Closer")
            /\ (lead <= 0 \/ lead > 3 \/ sub_inning < 8)
                   => ~(changed /\ new \in {"Setup", "Closer"})

\* C20: when no Setup or Closer comes in and the pitch count has reached the
\* maximum of the incumbent's role, an unused LongRelief teammate (if any)
\* comes in before inning 7 and an unused ShortRelief teammate (if any) from
\* inning 7 on; below the maximum no such change is made.
C20_WorkloadRule ==
    (sub_pc = "done" /\ ~(changed /\ PlayerPos[sub_pit.pitcher] \in {"Setup", "Closer"})) =>
        LET cur == PlayerPos[sub_old.pitcher]
            new == PlayerPos[sub_pit.pitcher]
        IN  /\ (sub_old.pitches >= max_pitches_for_pos(cur) /\ sub_inning < 7
                    /\ unused("LongRelief") # {})
                   => (changed /\ new = "LongRelief")
            /\ (sub_old.pitches >= max_pitches_for_pos(cur) /\ sub_inning >= 7
                    /\ unused("ShortRelief") # {})
                   => (changed /\ new = "ShortRelief")
            /\ sub_old.pitches < max_pitches_for_pos(cur) => ~changed

-----------------------------------------------------------------------------
(* Properties of the end of Game::sim *)

\* The side with more runs and the side with fewer
winning_side == IF end_home.r > end_away.r THEN "home" ELSE "away"
losing_side == IF end_home.r > end_away.r THEN "away" ELSE "home"

\* C17: a completed game logs exactly one Pw and exactly one Pl; the Pw goes
\* to a pitcher of the team with more runs and the Pl to a pitcher of the
\* team with fewer, the teams that Team::results counts a win and a loss for.
C17_DecisionsAgreeWithResult ==
    end_pc = "done" =>
        /\ Cardinality(events_of(end_log, "Pw")) = 1
        /\ Cardinality(events_of(end_log, "Pl")) = 1
        /\ \A p \in credited(end_log, "Pw") : p[1] = winning_side
        /\ \A p \in credited(end_log, "Pl") : p[1] = losing_side
        /\ end_results[winning_side].win = 1
        /\ end_results[losing_side].lose = 1

-----------------------------------------------------------------------------
(* Properties of the weighted draws *)

\* Every weight of the map drawn from is zero
all_weights_zero ==
    draw_weights # None /\ \A k \in DOMAIN Unwrap(draw_weights) : Unwrap(draw_weights)[k] = 0

C11_SameDrawsSameOutcome ==
    draw_pc = "done" => draw_result["a"] = draw_result["b"]

-----------------------------------------------------------------------------
(* Properties of Game::setup_pitcher *)

-----------------------------------------------------------------------------
(* Properties of the pitching of one side *)

\* The pitchers of the side in order of appearance: those of the archived
\* stints, then the current one while the game is on (the end of the game
\* archives the current pitcher's stint)
mound_order ==
    LET rec == staff_sb.pitcher_record
        archived == [i \in 1..Len(rec) |-> rec[i].pitcher]
    IN  IF staff_pc = "done" THEN archived ELSE Append(archived, staff_sb.pitcher)

\* C21: no pitcher takes the mound twice for a side: the current pitcher and
\* the pitchers of the archived stints are pairwise distinct, and every
\* pitcher brought in is on the roster of the pitching team.
C21_NoPitcherTwice ==
    staff_pc # "idle" =>
        /\ \A i, j \in DOMAIN mound_order : mound_order[i] = mound_order[j] => i = j
        /\ \A i \in DOMAIN staff_log : staff_log[i].player \in staff_team

\* A game ended by the side's fourth pitcher
C21_Witness ==
    /\ staff_pc = "done"
    /\ Len(mound_order) = 4
    /\ Len(staff_log) = 3
    /\ PlayerPos[mound_order[4]] = "Closer"

\* The outs of the stints
RECURSIVE stint_outs(_)
stint_outs(rec) ==
    IF rec = <<>> THEN 0 ELSE rec[Len(rec)].outs + stint_outs(SubSeq(rec, 1, Len(rec) - 1))

\* The stint list of the side is well formed: one stint per pitching change
\* (and one more at the end of the game), the first entered at 0, each later
\* run_diff_in is the run_diff_out before it, the outs add up to the outs
\* recorded while the side pitched, and the last run_diff_out of a finished
\* game is the final run margin of the side
stints_well_formed ==
    LET rec == staff_sb.pitcher_record
    IN  /\ Len(rec) = Len(staff_log) + (IF staff_pc = "done" THEN 1 ELSE 0)
        /\ (IF rec = <<>> THEN staff_sb.pitcher_run_diff_in ELSE rec[1].run_diff_in) = 0
        /\ \A i \in 2..Len(rec) : rec[i].run_diff_in = rec[i - 1].run_diff_out
        /\ rec # <<>> /\ staff_pc # "done" =>
              staff_sb.pitcher_run_diff_in = rec[Len(rec)].run_diff_out
        /\ stint_outs(rec) + (IF staff_pc = "done" THEN 0 ELSE staff_sb.pitcher_outs)
              = staff_fielded
        /\ staff_pc = "done" =>
              rec[Len(rec)].run_diff_out = staff_sb.r - staff_other_r

\* A step that changes the pitcher archives one stint, that of the outgoing
\* pitcher with the outs he recorded, and the incoming pitcher starts from 0
\* pitches and 0 outs: after the plate appearance of the step he has the
\* pitches and the outs of that plate appearance alone
change_archives_and_resets ==
    staff_sb'.pitcher # staff_sb.pitcher =>
        LET rec == staff_sb'.pitcher_record
        IN  /\ Len(rec) = Len(staff_sb.pitcher_record) + 1
            /\ SubSeq(rec, 1, Len(rec) - 1) = staff_sb.pitcher_record
            /\ rec[Len(rec)].pitcher = staff_sb.pitcher
            /\ rec[Len(rec)].outs = staff_sb.pitcher_outs
            /\ rec[Len(rec)].run_diff_in = staff_sb.pitcher_run_diff_in
            /\ staff_sb'.pitches \in PitchesExplored
            /\ staff_sb'.pitcher_outs \in 0..2

\* C22: every pitching change archives exactly one stint for the outgoing
\* pitcher and resets pitches and pitcher_outs for the incoming one; the
\* first stint has run_diff_in = 0, each later run_diff_in equals the
\* run_diff_out before it, the final run_diff_out equals the side's final
\* run margin, and the outs of the stints sum to the outs recorded while the
\* side pitched.
C22_StintsArchived ==
    /\ [](staff_pc \in {"loop", "done"} => stints_well_formed)
    /\ [][change_archives_and_resets]_vars

-----------------------------------------------------------------------------
(* Properties of the loop of Game::sim and its log *)

\* The Scoreboard of a side
play_sb(side) == IF side = "home" THEN play_home ELSE play_away

\* The last plate appearance
last_pa == Unwrap(play_last)

\* C24: each side bats in strict cyclic order.  Counting a side's plate
\* appearances from the value of its batting-order index at the start (the
\* index is 0 when the game begins), the index stands, after k of them and
\* whatever their outcomes and the innings gone by, at start + k modulo 9, and
\* the k-th of them (k from 0) was taken by lineup slot start + k modulo 9.
C24_BattingOrderCycles ==
    \A side \in {"home", "away"} :
        LET k == play_count[side]
        IN  /\ play_sb(side).ab = (play_start_ab[side] + k) % 9
            /\ (play_last # None /\ last_pa.side = side)
                  => /\ k > 0
                     /\ last_pa.batter = bo_player(side, (play_start_ab[side] + k - 1) % 9)

\* C24 witness: the away side, which batted in the ninth with slot 8, bats
\* again in the tenth, with slot 0.
C24_Witness ==
    /\ play_inning.number = 10
    /\ play_last # None
    /\ last_pa.side = "away"
    /\ play_start_ab.away = 8
    /\ play_count.away = 2
    /\ last_pa.batter = bo_player("away", 0)

\* The Scoreboard of the side at bat as the last plate appearance left it
last_after == play_sb(last_pa.side)

\* The runners the last loop iteration logged a run for
scored_now == {play_log[i].player : i \in {j \in DOMAIN play_log : play_log[j].event = "Br"}}

\* The runner that stood on a base when the last plate appearance began
stood_on(b) == Unwrap(last_pa.before.onbase[b]).runner

\* The last plate appearance was a Single fielded in right field
single_to_right ==
    /\ play_last # None
    /\ last_pa.result = "Single"
    /\ last_pa.target = "RightField"

\* C25 as stated: on a Single to RightField a runner on third and a runner on
\* second both score on that play, and the batter stands on first after it.
C25_BothScoreOnSingleToRight ==
    single_to_right =>
        /\ \A b \in {2, 3} : last_pa.before.onbase[b] # None => stood_on(b) \in scored_now
        /\ last_after.onbase[1] # None
        /\ Unwrap(last_after.onbase[1]).runner = last_pa.batter

\* C25 amended: on a Single to RightField a runner on third scores on that
\* play, a runner on second advances to third without scoring, and then the
\* batter is placed on first, pushing a runner on first to second; no other
\* run scores.
C25_SingleToRight ==
    single_to_right =>
        /\ last_pa.before.onbase[3] # None => stood_on(3) \in scored_now
        /\ last_pa.before.onbase[2] # None
              => /\ last_after.onbase[3] = last_pa.before.onbase[2]
                 /\ stood_on(2) \notin scored_now
        /\ last_pa.before.onbase[1] # None
              => last_after.onbase[2] = last_pa.before.onbase[1]
        /\ last_after.onbase[1] # None
        /\ Unwrap(last_after.onbase[1]).runner = last_pa.batter
        /\ last_after.r = last_pa.before.r
                            + (IF last_pa.before.onbase[3] # None THEN 1 ELSE 0)

\* C25 witness: a Single to RightField with runners on second and third: one
\* run scores and the runner from second stands on third.
C25_Witness ==
    /\ single_to_right
    /\ last_pa.before.onbase[2] # None
    /\ last_pa.before.onbase[3] # None
    /\ last_after.r = last_pa.before.r + 1
    /\ last_after.onbase[3] = last_pa.before.onbase[2]

\* The outs charged for the last plate appearance
outs_charged == play_outs - last_pa.outs

\* The last plate appearance was an Out, not an error, made with fewer than two
\* outs and fielded at one of the given positions
out_fielded_at(positions) ==
    /\ play_last # None
    /\ last_pa.result = "Out"
    /\ last_pa.outs < 2
    /\ last_pa.target \in positions

\* The infield positions other than catcher and pitcher
InfieldTargets == SprayPositions \ (OutfieldPositions \cup {"Catcher", "StartingPitcher"})

\* C26 as stated: on such an Out to the infield, a runner on second base is
\* removed and two outs are charged; with second base empty one out is charged
\* and no runner is removed.
C26_RunnerOnSecondRemoved ==
    out_fielded_at(InfieldTargets) =>
        IF last_pa.before.onbase[2] # None
        THEN /\ last_after.onbase = [last_pa.before.onbase EXCEPT ![2] = None]
             /\ outs_charged = 2
        ELSE /\ last_after.onbase = last_pa.before.onbase
             /\ outs_charged = 1

\* C26 amended: on a non-error Out with fewer than 2 outs hit to an infield
\* position other than catcher or pitcher, a runner on first base is removed
\* and two outs are charged; with first base empty one out is charged and no
\* runner is removed.  No run scores either way.
C26_RunnerOnFirstRemoved ==
    out_fielded_at(InfieldTargets) =>
        /\ IF last_pa.before.onbase[1] # None
           THEN /\ last_after.onbase = [last_pa.before.onbase EXCEPT ![1] = None]
                /\ outs_charged = 2
           ELSE /\ last_after.onbase = last_pa.before.onbase
                /\ outs_charged = 1
        /\ last_after.r = last_pa.before.r
        /\ scored_now = {}

\* C26 witness: such an Out with runners on first and second: the runner on
\* first is gone, the runner on second stays, two outs are charged.
C26_Witness ==
    /\ out_fielded_at(InfieldTargets)
    /\ last_pa.before.onbase[1] # None
    /\ last_pa.before.onbase[2] # None
    /\ last_after.onbase[1] = None
    /\ last_after.onbase[2] = last_pa.before.onbase[2]
    /\ outs_charged = 2

\* Nobody moved on the last plate appearance and nobody scored
nobody_moved ==
    /\ last_after.onbase = last_pa.before.onbase
    /\ last_after.r = last_pa.before.r
    /\ scored_now = {}

\* C27: on a non-error Out with fewer than 2 outs, fielded in the outfield, the
\* runner on third (if any) scores and no other runner moves; fielded by the
\* catcher or the pitcher, the runner on first advances to second, pushing a
\* runner on second to third, only when third base is unoccupied, and nothing
\* moves otherwise.  On an Out with 2 outs already, or on a Strikeout, no
\* baserunner moves.
C27_RunnersOnOuts ==
    /\ out_fielded_at(OutfieldPositions) =>
          /\ last_after.onbase = [last_pa.before.onbase EXCEPT ![3] = None]
          /\ IF last_pa.before.onbase[3] # None
             THEN /\ scored_now = {stood_on(3)}
                  /\ last_after.r = last_pa.before.r + 1
             ELSE /\ scored_now = {}
                  /\ last_after.r = last_pa.before.r
    /\ out_fielded_at({"Catcher", "StartingPitcher"}) =>
          /\ IF last_pa.before.onbase[3] = None /\ last_pa.before.onbase[1] # None
             THEN last_after.onbase = [last_pa.before.onbase EXCEPT
                                          ![1] = None,
                                          ![2] = last_pa.before.onbase[1],
                                          ![3] = last_pa.before.onbase[2]]
             ELSE last_after.onbase = last_pa.before.onbase
          /\ last_after.r = last_pa.before.r
          /\ scored_now = {}
    /\ (/\ play_last # None
        /\ \/ last_pa.result = "Strikeout"
           \/ last_pa.result = "Out" /\ last_pa.outs >= 2)
          => nobody_moved

\* C27 witness: an Out fielded by the catcher or the pitcher with fewer than
\* two outs, runners on first and second and third base free: the runners
\* stand on second and third after it.
C27_Witness ==
    /\ out_fielded_at({"Catcher", "StartingPitcher"})
    /\ last_pa.before.onbase[1] # None
    /\ last_pa.before.onbase[2] # None
    /\ last_pa.before.onbase[3] = None
    /\ last_after.onbase[1] = None
    /\ last_after.onbase[2] = last_pa.before.onbase[1]
    /\ last_after.onbase[3] = last_pa.before.onbase[2]

\* The positions of the log's events of the given kinds
log_indices(events) == {i \in DOMAIN play_log : play_log[i].event \in events}

\* C28: every run is logged as earned (Per) or unearned (Pr), right after the
\* runner's Br, against the pitcher who was on the mound in the plate
\* appearance in which the scoring runner reached base; it is unearned if the
\* runner reached on an Error or while the half-inning's virtual outs were
\* already 3 or more, and earned otherwise.
C28_RunsChargedToPitcherOfRecord ==
    /\ \A i \in log_indices({"Br"}) :
          LET reached == play_reached[play_log[i].player]
          IN  /\ i + 1 \in DOMAIN play_log
              /\ play_log[i + 1].player = reached.pitcher
              /\ play_log[i + 1].event =
                    IF reached.result = "Error" \/ reached.virtual_outs >= 3
                    THEN "Pr" ELSE "Per"
    /\ \A i \in log_indices({"Per", "Pr"}) : i - 1 \in log_indices({"Br"})
    /\ play_last # None =>
          Cardinality(log_indices({"Br"})) = last_after.r - last_pa.before.r

\* C28 witness: a run scores while sr1 pitches and is charged, as an earned
\* run, to sp1, who pitched when the runner reached base.
C28_Witness ==
    /\ play_last # None
    /\ last_pa.pitcher = "sr1"
    /\ \E i \in log_indices({"Per"}) :
          /\ play_log[i].player = "sp1"
          /\ play_reached[play_log[i - 1].player].pitcher = "sp1"

BattingResults == {"B1b", "B2b", "B3b", "Bhr", "Bbb", "Bhbp", "Bso", "Bo"}
PitchingResults == {"P1b", "P2b", "P3b", "Phr", "Pbb", "Phbp", "Pso", "Po"}

\* The last plate appearance logged exactly one batting-result event, for the
\* batter
one_batting_result ==
    \E i \in DOMAIN play_log :
        /\ log_indices(BattingResults) = {i}
        /\ play_log[i].player = last_pa.batter

\* The last plate appearance logged exactly one pitching-result event, the
\* given one, for the pitcher
one_pitching_result(events) ==
    \E i \in DOMAIN play_log :
        /\ log_indices(PitchingResults) = {i}
        /\ play_log[i].player = last_pa.pitcher
        /\ play_log[i].event \in events

\* C30 as stated: every plate appearance logs exactly one batting-result event
\* for the batter and exactly one pitching-result event for the pitcher, Pso
\* on a Strikeout and Po on an Error.
C30_OneEventEach ==
    play_last # None =>
        /\ one_batting_result
        /\ one_pitching_result(CASE last_pa.result = "Strikeout" -> {"Pso"}
                                 [] last_pa.result = "Error" -> {"Po"}
                                 [] OTHER -> PitchingResults)

\* C30 amended: every plate appearance logs exactly one batting-result event
\* for the batter; it logs exactly one pitching-result event for the pitcher,
\* Pso on a Strikeout, unless it is resolved as an Error, which logs no
\* pitching-result event.
C30_OneEventEachButError ==
    play_last # None =>
        /\ one_batting_result
        /\ IF last_pa.result = "Error"
           THEN log_indices(PitchingResults) = {}
           ELSE one_pitching_result(IF last_pa.result = "Strikeout"
                                    THEN {"Pso"} ELSE PitchingResults)

\* C30 witness: a plate appearance resolved as an Error, logged as Bo for the
\* batter and with no event for the pitcher.
C30_Witness ==
    /\ play_last # None
    /\ last_pa.result = "Error"
    /\ one_batting_result
    /\ \E i \in log_indices({"Bo"}) : play_log[i].player = last_pa.batter
    /\ \A i \in DOMAIN play_log : play_log[i].player # last_pa.pitcher

\* The last plate appearance made the third out of the half-inning
third_out_made ==
    /\ play_last # None
    /\ last_pa.outs < 3
    /\ play_outs >= 3

\* C37: no run is scored on a plate appearance that records the third out of a
\* half-inning: no runner's run is logged for it and the run total of the side
\* at bat is what it was before it.
C37_NoRunOnThirdOut ==
    third_out_made =>
        /\ scored_now = {}
        /\ log_indices({"Br", "Brbi", "Per", "Pr"}) = {}
        /\ last_after.runs_in = <<>>
        /\ last_after.r = last_pa.before.r

\* C37 witness: the third out is an Out fielded in the outfield with a runner
\* on third, who stays there.
C37_Witness ==
    /\ third_out_made
    /\ last_pa.result = "Out"
    /\ last_pa.target \in OutfieldPositions
    /\ last_pa.before.onbase[3] # None
    /\ last_after.onbase[3] = last_pa.before.onbase[3]

\* A state right after a Middle or End tick: the next loop iteration is the
\* first plate appearance of a half-inning
half_opens ==
    /\ play_pc = "loop"
    /\ play_last = None
    /\ play_count.home + play_count.away > 0
    /\ play_inning.half \in {"Top", "Bottom"}

\* C39: at the first plate appearance of a half-inning, the tenth inning
\* included, the side at bat has nobody on first, second or third and nobody
\* in the batter's box; the runners a side left on base are gone when it comes
\* to bat again.
C39_BasesEmptyWhenHalfOpens ==
    half_opens =>
        /\ \A b \in 0..3 : batting(play_inning, play_home, play_away).onbase[b] = None
        /\ play_outs = 0

\* C39 witness: the top of the tenth opens with the bases empty, the away side
\* having left a runner on base in the ninth.
C39_Witness ==
    /\ half_opens
    /\ play_inning = [number |-> 10, half |-> "Top"]
    /\ \E p \in DOMAIN play_reached :
          /\ p[1] = "away"
          /\ play_reached[p].result = "Walk"
    /\ \A b \in 0..3 : play_away.onbase[b] = None

\* The real outs recorded while a side pitched, from the start on: the outs of
\* its archived stints and of the stint of the pitcher on the mound
outs_pitched(side) ==
    stint_outs(play_sb(side).pitcher_record) + play_sb(side).pitcher_outs
        - play_start_outs[side]

\* C38: in a completed game, for each side, the number of Po and Pso events
\* logged to the side's pitchers equals the number of real outs recorded while
\* the side pitched.
C38_OutEventsMatchOuts ==
    play_pc = "done" =>
        \A side \in {"home", "away"} : play_tally[side].outs = outs_pitched(side)

-----------------------------------------------------------------------------
(* Properties of the archived seasons *)

\* C31: archiving a season is lossless: right after record_stat_history, the
\* Stats that HistoricalStats::get_stats returns for the snapshot written
\* equal the Stats compile_stats returned for the stream just before (every
\* counter and every derived field), and the current stream is empty.
C31_ArchiveLossless ==
    arch_pc = "archived" =>
        /\ historical_get_stats(arch_historical[Len(arch_historical)])
              = Unwrap(arch_compiled)
        /\ arch_stream = <<>>

-----------------------------------------------------------------------------
(* Properties of the season of a league *)

\* A game as Game::new built it, game.rs:145-151: Game::sim never ran on it,
\* so it stands 0-0 with an empty play-by-play log and no pitcher stints.
untouched(g) == g.played = 0

\* A game Game::sim ran on once, to the end of its loop
complete(g) == g.played = 1

\* C32: a call of League::sim keeps the number and the order of the games
\* and the home and away team of every game, and leaves every game outside
\* the day-group as it was; every game at an index at or beyond cur_idx is
\* untouched, every game below cur_idx is complete, and the games of the
\* day-group ended with two different run totals.
C32_DayGroupFrame ==
    /\ [][/\ Len(league_games') = Len(league_games)
          /\ \A i \in DOMAIN league_games :
                /\ league_games'[i].home = league_games[i].home
                /\ league_games'[i].away = league_games[i].away
                /\ (i - 1 < cur_idx \/ i - 1 >= cur_idx')
                      => league_games'[i] = league_games[i]]_vars
    /\ [](\A i \in DOMAIN league_games :
             IF i - 1 >= cur_idx THEN untouched(league_games[i])
                                 ELSE complete(league_games[i]))
    /\ [](\A k \in DOMAIN day_scores : day_scores[k][1] # day_scores[k][2])

C32_Witness ==
    /\ Len(league_teams) = 4
    /\ cur_idx = 24
    /\ Len(day_scores) = 2
    /\ complete(league_games[24])
    /\ untouched(league_games[25])

\* The team of game g with more runs under the score <<home.r, away.r>>
winner(g, score) == IF score[1] > score[2] THEN g.home ELSE g.away

\* The other team of the game
loser(g, score) == IF score[1] > score[2] THEN g.away ELSE g.home

\* The sum of the counter over the first n teams
RECURSIVE tally_sum(_, _, _)
tally_sum(res, counter, n) ==
    IF n = 0 THEN 0 ELSE res[n][counter] + tally_sum(res, counter, n - 1)

\* C34: every simulated game adds one win to the team with more runs and one
\* loss to the other and changes no other tally; the wins and the losses of
\* the league both add up to the number of games simulated; and once
\* League::sim has returned false every team of a league of N teams has
\* wins + losses = 8 * (N - 1).
C34_OneWinOneLossPerGame ==
    /\ [][\A t \in DOMAIN team_results :
             LET today == {k \in DOMAIN day_scores' : sim_ret' = Some(TRUE)}
                 won == {k \in today : winner(league_games[cur_idx + k], day_scores'[k]) = t}
                 lost == {k \in today : loser(league_games[cur_idx + k], day_scores'[k]) = t}
             IN  /\ team_results'[t].win = team_results[t].win + Cardinality(won)
                 /\ team_results'[t].lose = team_results[t].lose + Cardinality(lost)]_vars
    /\ [](/\ tally_sum(team_results, "win", Len(team_results)) = Len(sim_calls)
          /\ tally_sum(team_results, "lose", Len(team_results)) = Len(sim_calls))
    /\ [](sim_ret = Some(FALSE) =>
             \A t \in DOMAIN team_results :
                team_results[t].win + team_results[t].lose
                   = 8 * (Len(league_teams) - 1))

C34_Witness ==
    /\ sim_ret = Some(FALSE)
    /\ Len(league_teams) = 4
    /\ \A t \in DOMAIN team_results :
          team_results[t].win > 0 /\ team_results[t].lose > 0

-----------------------------------------------------------------------------
(* Properties of the batting order *)

\* The players of the team at the position
at_position(pos) ==
    {lineup_team[i] : i \in {k \in DOMAIN lineup_team :
                                lineup_players[lineup_team[k]].pos = pos}}

\* The players in the batting order
in_lineup(bo) == {bo[i].player : i \in DOMAIN bo}

\* C33: after setup_bo for a team with a player at each of the nine
\* non-pitcher positions the batting order holds nine different players and
\* each of the nine positions once; a slot is only ever held by a teammate
\* whose primary position is the slot's, and a player who alone has his
\* position is always in the order; the call adds exactly 1 to the fatigue of
\* each of the nine players of the final order and changes nobody else's.
C33_NineStartersOnePerPosition ==
    /\ [](lineup_pc = "set" =>
             /\ Len(lineup_bo) = 9
             /\ Cardinality(in_lineup(lineup_bo)) = 9
             /\ \A p \in 1..9 :
                   Cardinality({i \in DOMAIN lineup_bo : lineup_bo[i].pos = LineupPos[p]}) = 1
             /\ \A i \in DOMAIN lineup_bo :
                   lineup_bo[i].player \in at_position(lineup_bo[i].pos)
             /\ \A p \in 1..9 :
                   Cardinality(at_position(LineupPos[p])) = 1
                      => at_position(LineupPos[p]) \subseteq in_lineup(lineup_bo))
    /\ [][\A id \in DOMAIN lineup_players :
             lineup_players'[id].fatigue =
                lineup_players[id].fatigue
                   + (IF id \in in_lineup(lineup_bo') THEN 1 ELSE 0)]_vars

\* the second catcher starts in place of a tired first catcher
C33_Witness ==
    /\ lineup_pc = "set"
    /\ lineup_players[10].b_obp = 250
    /\ lineup_players[1].fatigue = 4
    /\ 10 \in in_lineup(lineup_bo)
    /\ lineup_players[10].fatigue = 1
    /\ lineup_players[11].fatigue = 0

-----------------------------------------------------------------------------
(* Properties of relegation and promotion *)

\* The teams of a list
league_members(list) == {list[i] : i \in DOMAIN list}

\* The 1-based index of the league the team is in
league_of(leagues, team) == CHOOSE i \in DOMAIN leagues : team \in league_members(leagues[i])

\* The last count teams of a list
last_teams(list, count) == {list[i] : i \in (Len(list) - count + 1)..Len(list)}

\* The first count teams of a list
first_teams(list, count) == {list[i] : i \in 1..count}

\* C35: with at least 2 * count teams in every league, the relegation and
\* promotion of end_of_season keeps the number of teams of every league and
\* the set of all teams, moves exactly the last `count` teams of every league
\* but the lowest one league down and exactly the first `count` teams of
\* every league but the top one league up, and leaves every other team in
\* its league; so no team moves more than one league in a season.
C35_RelegationPromotion ==
    [][rel_pc = "sorted" /\ rel_pc' = "season" =>
          LET n == Len(rel_leagues)
              all == UNION {league_members(rel_leagues[i]) : i \in 1..n}
          IN  /\ Len(rel_leagues') = n
              /\ \A i \in 1..n : Len(rel_leagues'[i]) = Len(rel_leagues[i])
              /\ \A i \in 1..n : Cardinality(league_members(rel_leagues'[i])) = Len(rel_leagues[i])
              /\ UNION {league_members(rel_leagues'[i]) : i \in 1..n} = all
              /\ \A i \in 1..n : \A t \in league_members(rel_leagues[i]) :
                    league_of(rel_leagues', t) =
                       IF i < n /\ t \in last_teams(rel_leagues[i], rel_count)
                       THEN i + 1
                       ELSE IF i > 1 /\ t \in first_teams(rel_leagues[i], rel_count)
                       THEN i - 1
                       ELSE i]_vars

\* the second season of three leagues of four has been closed with count 2
C35_Witness ==
    /\ rel_pc = "season"
    /\ rel_year = 2
    /\ Len(rel_leagues) = 3
    /\ rel_count = 2
    /\ league_of(rel_leagues, 1) = 3

-----------------------------------------------------------------------------
(* Properties of the league records *)

\* The player-seasons seen so far that met the stat's qualification
qualified_seen(stat) ==
    {id \in rec_seen : is_qualified(stat, PlayerSeasons[id], GamesPlayed)}

\* Whether mark a is at least as good as mark b for the stat
as_good(stat, a, b) == IF is_reverse_sort(stat) THEN a <= b ELSE a >= b

\* C36: after any sequence of check_record calls every league record is the
\* best mark (the largest, or the smallest for a reverse-sorted stat) among
\* the player-seasons seen so far that met the stat's qualification, and is
\* held by a player who was qualified; and a record is only replaced by a
\* strictly better value.
C36_RecordsAreBestQualified ==
    /\ [](\A stat \in DOMAIN rec_records :
             /\ rec_records[stat] # None =>
                   /\ Unwrap(rec_records[stat]).player_id \in qualified_seen(stat)
                   /\ \A id \in qualified_seen(stat) :
                         as_good(stat, Unwrap(rec_records[stat]).record,
                                 PlayerSeasons[id][stat])
             /\ qualified_seen(stat) # {} => rec_records[stat] # None)
    /\ [][\A stat \in DOMAIN rec_records :
             rec_records[stat] # None /\ rec_records'[stat] # rec_records[stat] =>
                /\ rec_records'[stat] # None
                /\ as_good(stat, Unwrap(rec_records'[stat]).record,
                           Unwrap(rec_records[stat]).record)
                /\ Unwrap(rec_records'[stat]).record # Unwrap(rec_records[stat]).record]_vars

=============================================================================
